---- MODULE Spec2Model ----
(***************************************************************************)
(* Cold/hot masternode orchestration of pastelup: ColdHotRunner.Init and   *)
(* ColdHotRunner.Run of cmd/start_coldhot.go, with the two poll loops      *)
(* CheckPastelDRunningRemote and checkMasterNodeSyncRemote, the detached   *)
(* remote daemon launches (goroutines) and the remote daemon they act on.  *)
(***************************************************************************)
EXTENDS Integers, Sequences, FiniteSets, TLC

VARIABLES
    pc,             \* the step of Init/Run that is about to execute, or "done"
    at,             \* position inside a poll loop step ("" for a plain step)
    err,            \* the error Init/Run returned ("" while running or on success)
    flags,          \* flagMasterNodeIsCreate/IsUpdate/IsActivate, flagNodeExtIP given
    sshOpen,        \* r.sshClient holds an open session
    sshCmds,        \* programs run on the remote host through the SSH session so far
    localRunning,   \* the local (cold) pasteld is running
    remote,         \* the remote (hot) pasteld: "down", "plain" or "mn"
    remoteStopping, \* the remote pasteld accepted "stop" and has not exited yet
    gor,            \* the launch goroutine of each launch site
    executed,       \* steps that have been executed
    failed,         \* steps that returned an error
    failCnt,        \* CheckPastelDRunningRemote: failCnt
    queries,        \* CheckPastelDRunningRemote: getinfo queries issued in this call
    sleeps,         \* CheckPastelDRunningRemote: 5 second sleeps taken in this call
    checkRes,       \* CheckPastelDRunningRemote: the value returned ("none" before)
    retryCount,     \* checkMasterNodeSyncRemote: retryCount
    statusFails,    \* checkMasterNodeSyncRemote: failed "mnsync status" queries of this call
    responses,      \* checkMasterNodeSyncRemote: parsed status responses of this call
    resets,         \* checkMasterNodeSyncRemote: "mnsync reset" commands of this call
    syncRes,        \* checkMasterNodeSyncRemote: "none", "ok" or the error returned
    aliasOutput,    \* runStartAliasMasternode: what "masternode start-alias" gave
    \* the masternode parameter resolver (prepareMasterNodeParameters, cmd/start.go)
    flagMasterNodeTxID,        \* --txid
    flagMasterNodeInd,         \* --ind
    flagMasterNodePassPhrase,  \* --passphrase
    flagMasterNodePrivateKey,  \* --pkey
    flagMasterNodePastelID,    \* --pastelid
    entry,          \* the five values when the resolver was entered
    startPasteld,   \* prepareMasterNodeParameters' startPasteld argument
    rpc,            \* the resolver step about to execute; "idle", "done"
    rerr,           \* the error the resolver returned ("" while running or on success)
    prompts,        \* AskUserToContinue calls so far
    rpcCalls,       \* pastel-cli RPCs issued so far, by name
    waitI,          \* checkCollateral: the wait loop's i
    round,          \* checkCollateral: rounds of the wait loop started so far
    roundQueries,   \* checkCollateral: "masternode outputs" queries of this round
    \* the two configuration files (createOrUpdateMasternodeConf,
    \* createOrUpdateSuperNodeConfig)
    masternodeConf, \* the masternode.conf entry of the node
    snConf,         \* supernode.yml: absent, empty, garbage, or its node section
    confPc,         \* the step about to execute; "idle", "done"
    confErr,        \* the error returned ("" while running or on success)
    \* runStartMasternode
    flagNodeExtIP,  \* --ip
    confExtIP,      \* the external IP of the node's masternode.conf entry
    mnPc,           \* the step about to execute; "idle", "done"
    mnErr,          \* the error returned ("" while running or on success)
    mnLaunched,     \* whether runPastelNode was called, and its arguments
    \* LinuxSystemdManager, for one tool
    app,            \* the tool the calls are about
    exePresent,     \* the tool's executable is in config.PastelExecDir
    registered,     \* the tool's unit file exists where IsRegistered looks
    unit,           \* the unit file RegisterService wrote, NoUnit when there is none
    enabled,        \* systemd has the unit enabled
    running,        \* systemd has the service running
    lastCall,       \* the last call to the manager and what it did
    prevCall,       \* the call before it
    \* runPastelNode
    nodeCall,       \* its arguments: txIndexOne, reindex, extIP, mnPrivKey
    nodeFiles,      \* which of pasteld, pastel.conf and the zksnark files are in place
    nodePc,         \* the step about to execute; "idle", "done"
    nodeErr,        \* the error returned ("" while running or on success)
    pasteldArgs,    \* the argument list built so far
    spawned,        \* the argument lists handed to "go RunCMD", in order
    \* Run, lines 223-246: the supernode config goes to the hot node
    snCfg,          \* the local path separator, WorkingDir and RemoteWorkingDir
    remoteMode,     \* the hot node's files: "absent" or the file's mode
    copied,         \* remote paths Scp wrote the local config to
    chmodded,       \* remote paths "chmod 755" was applied to
    snPc,           \* the step about to execute; "idle", "done"
    snErr,          \* the error returned ("" while running or on success)
    snStarted,      \* supernode-service was started on the hot node
    \* ColdHotRunner.Init with its inputs
    chIn,           \* which configuration values, flags and files are there
    chPc,           \* the step about to execute; "idle", "done"
    chErr,          \* the error returned ("" while running or on success)
    sshAttempts,    \* connectSSH calls so far
    chCmds,         \* commands sent over the session so far
    \* install runs on one machine (installPastelCore and what precedes it)
    pastelConf,     \* pastel.conf: its rpcuser, rpcpassword and rpcport; NoConf
    instDirs,       \* whether config.PastelExecDir and config.WorkingDir exist
    instCfg,        \* the run's configs.Config: flags and RPC fields
    instPc,         \* the step about to execute; "idle", "done"
    instErr,        \* the error the run returned ("" while running or on success)
    instRuns,       \* install runs started so far
    instGen,        \* utils.GenerateRandomString calls so far
    \* the interrupt handler of the start command
    cancelled,      \* cancel() was called on the command's context
    exited,         \* os.Exit(0) was called
    \* the operations that parse what an RPC printed
    cliOk,          \* the RPC returned no error
    cliText,        \* what the RPC printed, as JSON tokens
    parsePc,        \* "idle", "call" before the operation ran, or the operation that ran
    parseErr,       \* the error the operation returned ("" for nil)
    \* the masternode private key on its way through Run
    keyIn,          \* flagMasterNodeIsCreate/IsUpdate and flagMasterNodeName
    mnPrivateKey,   \* flagMasterNodePrivateKey during the run
    mnRegistry,     \* masternode.conf: the private key of each node name's entry
    genkeyOut,      \* what "masternode genkey" printed on the hot node in this run
    keyPc,          \* the step about to execute; "idle", "done"
    keyErr,         \* the error Run returned ("" while running or on success)
    remoteCmdLine,  \* the command line the masternode launch sent to the hot node
    \* runRemoteStart
    rsIn,           \* the tool, the flags and the config fields it reads
    startOptions,   \* the options built so far
    rsSent,         \* the commands handed to executeRemoteCommandsWithInventory
    rsFailed,       \* executing the command on the remote host(s) failed
    rsPc,           \* the step about to execute; "idle", "done"
    rsErr,          \* the error returned ("" for nil)
    \* CheckPastelDRunningRemote, one call from one call site
    chkSite,        \* the call site: its file, its line and the want it passes
    chkFailCnt,     \* failCnt
    chkAnswered,    \* whether the last getinfo query succeeded
    chkRet,         \* the value returned ("none" before)
    chkPc,          \* "idle", "getinfo", "ret" or "done"
    chkErr          \* the error the caller returned ("" for none)

runVars == <<pc, at, err, flags, sshOpen, sshCmds, localRunning, remote,
          remoteStopping, gor, executed, failed, failCnt, queries, sleeps,
          checkRes, retryCount, statusFails, responses, resets, syncRes, aliasOutput>>

mnFlags      == <<flagMasterNodeTxID, flagMasterNodeInd, flagMasterNodePassPhrase,
                  flagMasterNodePrivateKey, flagMasterNodePastelID>>
resolverVars == <<mnFlags, entry, startPasteld, rpc, rerr, prompts, rpcCalls,
                  waitI, round, roundQueries>>

confVars     == <<masternodeConf, snConf, confPc, confErr>>
mnVars       == <<flagNodeExtIP, confExtIP, mnPc, mnErr, mnLaunched>>
smVars       == <<app, exePresent, registered, unit, enabled, running, lastCall,
                  prevCall>>
nodeVars     == <<nodeCall, nodeFiles, nodePc, nodeErr, pasteldArgs, spawned>>
snStartVars  == <<snCfg, remoteMode, copied, chmodded, snPc, snErr, snStarted>>
chInitVars   == <<chIn, chPc, chErr, sshAttempts, chCmds>>
installVars  == <<pastelConf, instDirs, instCfg, instPc, instErr, instRuns, instGen>>
ctxVars      == <<cancelled, exited>>
parseVars    == <<cliOk, cliText, parsePc, parseErr>>
keyVars      == <<keyIn, mnPrivateKey, mnRegistry, genkeyOut, keyPc, keyErr,
                  remoteCmdLine>>
remoteStartVars == <<rsIn, startOptions, rsSent, rsFailed, rsPc, rsErr>>
chkVars      == <<chkSite, chkFailCnt, chkAnswered, chkRet, chkPc, chkErr>>
lateVars     == <<parseVars, keyVars, remoteStartVars, chkVars>>
toolVars     == <<nodeVars, snStartVars, chInitVars, installVars, ctxVars, lateVars>>

\* what ColdHotRunner.Init and Run never touch in this model
auxVars == <<resolverVars, confVars, mnVars, smVars, toolVars>>

vars == <<runVars, auxVars>>

ctlVars   == <<pc, at, err, executed, failed>>
checkVars == <<failCnt, queries, sleeps, checkRes>>
syncVars  == <<retryCount, statusFails, responses, resets, syncRes>>
envVars   == <<remote, remoteStopping, gor>>
actVars   == <<aliasOutput>>

-----------------------------------------------------------------------------
(* Bounds and program constants *)

\* status responses one checkMasterNodeSyncRemote call is followed for
MaxPolls == 4

\* failCnt == 12 in CheckPastelDRunningRemote
MaxFailCnt == 12

-----------------------------------------------------------------------------
(* Program order *)

\* The steps of Init, in program order.
InitOrder ==
    << "handleArgs", "handleConfigs", "connectSSH", "getExtIP" >>

\* (mutant) the remote launch moved ahead of the passphrase check
HandleCreateUpdateOrderLaunchFirst ==
    << "checkCollateral", "hcuLaunch", "hcuCheckRunning", "checkPassphrase",
       "checkMasternodePrivKey", "checkPastelID", "hcuStop", "backupConfFile" >>

\* The steps of handleCreateUpdateStartColdHot, in program order.
HandleCreateUpdateOrder ==
    << "checkCollateral", "checkPassphrase", "hcuLaunch", "hcuCheckRunning",
       "checkMasternodePrivKey", "checkPastelID", "hcuStop", "backupConfFile" >>

\* The steps of remoteHotNodeCtrl, in program order.
RemoteHotNodeCtrlOrder ==
    << "hotLaunch", "hotCheckRunning", "hotSync", "hotStop" >>

\* The steps of runRemoteNodeAsMasterNode, in program order.
RunRemoteNodeAsMasterNodeOrder ==
    << "mnLaunch", "mnCheckRunning", "mnSync" >>

\* (mutant) the local daemon is not stopped before the remote work
LocalNodeDownOrderSkipped ==
    << >>

\* What Run does after the create/update block and before the remote work.
LocalNodeDownOrder ==
    << "StopPastelDAndWait1" >>

\* What Run does between the masternode launch and the remote services.
ActivationOrder ==
    << "runPastelNode2", "CheckMasterNodeSync", "runStartAliasMasternode",
       "registerTicketPastelID", "StopPastelDAndWait2" >>

\* (mutant) dd-service is started before rq-service
RemoteServicesOrderDdFirst ==
    << "ddService", "rqService", "scp", "chmod", "snService" >>

\* The remote services part of Run.
RemoteServicesOrder ==
    << "rqService", "ddService", "scp", "chmod", "snService" >>

\* (mutant) the local daemon is stopped before the parameters are resolved
RunOrderStopFirst ==
    << "runPastelNode1" >> \o LocalNodeDownOrder \o HandleCreateUpdateOrder
    \o << "createOrUpdateMasternodeConf", "createOrUpdateSuperNodeConfig" >>
    \o RemoteHotNodeCtrlOrder
    \o << "getMasternodeConfData" >> \o RunRemoteNodeAsMasterNodeOrder
    \o ActivationOrder \o RemoteServicesOrder

\* The steps of Run, in program order.
RunOrder ==
    << "runPastelNode1" >> \o HandleCreateUpdateOrder
    \o << "createOrUpdateMasternodeConf", "createOrUpdateSuperNodeConfig" >>
    \o LocalNodeDownOrder \o RemoteHotNodeCtrlOrder
    \o << "getMasternodeConfData" >> \o RunRemoteNodeAsMasterNodeOrder
    \o ActivationOrder \o RemoteServicesOrder

\* Init, then Run.
Order == InitOrder \o RunOrder

Steps == { Order[i] : i \in 1..Len(Order) }

Index(step) == CHOOSE i \in 1..Len(Order) : Order[i] = step

\* The ParamsResolved step of Run: lines 129-146.
ParamsSteps ==
    { HandleCreateUpdateOrder[i] : i \in 1..Len(HandleCreateUpdateOrder) }
    \cup { "createOrUpdateMasternodeConf", "createOrUpdateSuperNodeConfig" }

CheckSteps  == { "hcuCheckRunning", "hotCheckRunning", "mnCheckRunning" }
SyncSteps   == { "hotSync", "mnSync" }
LaunchSteps == { "hcuLaunch", "hotLaunch", "mnLaunch" }

\* Whether the step is executed under the given flags (the if-blocks of Init and Run).
StepEnabled(step, f) ==
    CASE step = "getExtIP"               -> ~f.extIP
      [] step = "backupConfFile"         -> f.create
      [] step \in ParamsSteps            -> f.create \/ f.update
      [] step \in { "CheckMasterNodeSync", "runStartAliasMasternode" }
                                         -> f.activate
      [] step = "registerTicketPastelID" -> f.activate /\ f.create
      [] OTHER                           -> TRUE

\* The step executed after `step` succeeded; "return" when Run returns nil.
NextStep(step, f) ==
    LET later == { i \in (Index(step) + 1)..Len(Order) : StepEnabled(Order[i], f) }
    IN  IF later = {} THEN "return"
        ELSE Order[CHOOSE i \in later : \A j \in later : i <= j]

\* (mutant) the error of the first local stop is only logged
FatalIgnoreLocalStop(step) ==
    step \notin { "registerTicketPastelID", "StopPastelDAndWait1" }

\* (mutant) the error of the activation RPC is only logged
FatalIgnoreActivation(step) ==
    step \notin { "registerTicketPastelID", "runStartAliasMasternode" }

\* (mutant) the error of the second local stop is only logged
FatalIgnoreColdStop(step) ==
    step \notin { "registerTicketPastelID", "StopPastelDAndWait2" }

\* (mutant) the error of the ticket registration is returned too
FatalEveryStep(step) == TRUE

\* Whether an error of the step makes Init/Run return it.

Fatal(step) == step # "registerTicketPastelID"

\* Where a step starts inside itself.
EntryAt(step) ==
    CASE step \in CheckSteps -> "getinfo"
      [] step \in SyncSteps  -> "status"
      [] OTHER               -> ""

\* A step ended with ok or with an error.
Finish(step, ok) ==
    /\ executed' = executed \cup {step}
    /\ IF ok
       THEN /\ pc' = NextStep(step, flags)
            /\ at' = EntryAt(NextStep(step, flags))
            /\ UNCHANGED <<err, failed>>
       ELSE /\ failed' = failed \cup {step}
            /\ IF Fatal(step)
               THEN pc' = "done" /\ at' = "" /\ err' = step
               ELSE /\ pc' = NextStep(step, flags)
                    /\ at' = EntryAt(NextStep(step, flags))
                    /\ err' = err

-----------------------------------------------------------------------------
(* The remote daemon and the commands sent to it *)

\* The mode a launch site starts the remote daemon in.
LaunchMode(site) == IF site = "mnLaunch" THEN "mn" ELSE "plain"

\* Outcomes of an RPC through pastel-cli on the remote host: it can only
\* succeed while the remote daemon is up.
RemoteRpcOutcomes == IF remote = "down" THEN {FALSE} ELSE BOOLEAN

-----------------------------------------------------------------------------
(* Init *)

\* "masternode start-alias" was not called.
NoAliasOutput == [rpcOk |-> FALSE, json |-> "none", result |-> ""]

\* prepareMasterNodeParameters is not running.
ResolverAtRest ==
    /\ entry = << >>
    /\ startPasteld = FALSE
    /\ rpc = "idle"
    /\ rerr = ""
    /\ prompts = 0
    /\ rpcCalls = {}
    /\ waitI = 0
    /\ round = 0
    /\ roundQueries = 0

\* The resolver of cmd/start.go is not running and no flag is set.
ResolverIdle ==
    /\ flagMasterNodeTxID = ""
    /\ flagMasterNodeInd = ""
    /\ flagMasterNodePassPhrase = ""
    /\ flagMasterNodePrivateKey = ""
    /\ flagMasterNodePastelID = ""
    /\ ResolverAtRest

\* supernode.yml in a state without a node section.
SnFile(state) ==
    [state |-> state, pastel_id |-> "", pass_phrase |-> "",
     storage_challenge_expired_duration |-> "", number_of_challenge_replicas |-> "",
     node_port |-> "", p2p |-> ""]

\* supernode.yml holding a node section with these identity fields.
SnNode(id, pass) ==
    [state |-> "yaml", pastel_id |-> id, pass_phrase |-> pass,
     storage_challenge_expired_duration |-> "constant",
     number_of_challenge_replicas |-> "constant",
     node_port |-> "default", p2p |-> "default"]

\* No masternode.conf entry for the node.
NoEntry == [written |-> FALSE, pastelid |-> ""]

\* runPastelNode was not called.
NotLaunched == [called |-> FALSE, extIP |-> "", mnPrivKey |-> ""]

\* Nothing is writing the configuration files.
ConfIdle ==
    /\ masternodeConf = NoEntry
    /\ snConf = SnFile("absent")
    /\ confPc = "idle"
    /\ confErr = ""

\* runStartMasternode is not running.
MnIdle ==
    /\ flagNodeExtIP = ""
    /\ confExtIP = ""
    /\ mnPc = "idle"
    /\ mnErr = ""
    /\ mnLaunched = NotLaunched

\* No unit file in constants.SystemdSystemDir.
NoUnit == [tool |-> "", extIP |-> "none"]

\* No call to the service manager.
NoCall ==
    [op |-> "none", started |-> FALSE, err |-> "", verbs |-> {}, wrote |-> FALSE,
     statusOut |-> << >>, wasRunning |-> FALSE]

\* The service manager is not used.
SmIdle ==
    /\ app = ""
    /\ exePresent = FALSE
    /\ registered = FALSE
    /\ unit = NoUnit
    /\ enabled = FALSE
    /\ running = FALSE
    /\ lastCall = NoCall
    /\ prevCall = NoCall

\* runPastelNode is not running.
NodeIdle ==
    /\ nodeCall = [txIndexOne |-> FALSE, reindex |-> FALSE, extIP |-> "", mnPrivKey |-> ""]
    /\ nodeFiles = [pasteld |-> FALSE, conf |-> FALSE, zksnark |-> FALSE]
    /\ nodePc = "idle"
    /\ nodeErr = ""
    /\ pasteldArgs = << >>
    /\ spawned = << >>

\* Run is not at its supernode part.
SnStartIdle ==
    /\ snCfg = [sep |-> "/", WorkingDir |-> "", RemoteWorkingDir |-> ""]
    /\ remoteMode = << >>
    /\ copied = {}
    /\ chmodded = {}
    /\ snPc = "idle"
    /\ snErr = ""
    /\ snStarted = FALSE

\* The inputs of ColdHotRunner.Init when none is there.
NoChIn ==
    [RemotePastelUtilityDir |-> FALSE, pastelConf |-> FALSE, name |-> FALSE,
     confNew |-> FALSE, masternodeConf |-> FALSE, RemoteIP |-> FALSE, extIP |-> FALSE]

\* ColdHotRunner.Init is not followed with its inputs.
ChInitIdle ==
    /\ chIn = NoChIn
    /\ chPc = "idle"
    /\ chErr = ""
    /\ sshAttempts = 0
    /\ chCmds = {}

\* No pastel.conf.
NoConf == [rpcuser |-> 0, rpcpassword |-> 0, rpcport |-> 0]

\* The configs.Config of a process before its flags are read.
NoInstCfg ==
    [Force |-> FALSE, RegenRPC |-> FALSE, Network |-> "",
     RPCUser |-> 0, RPCPwd |-> 0, RPCPort |-> 0]

\* No install run is followed.
InstallIdle ==
    /\ pastelConf = NoConf
    /\ instDirs = [PastelExecDir |-> FALSE, WorkingDir |-> FALSE]
    /\ instCfg = NoInstCfg
    /\ instPc = "idle"
    /\ instErr = ""
    /\ instRuns = 0
    /\ instGen = 0

\* No interrupt was handled.
CtxIdle ==
    /\ cancelled = FALSE
    /\ exited = FALSE

\* No RPC output is being parsed.
ParseIdle ==
    /\ cliOk = FALSE
    /\ cliText = << >>
    /\ parsePc = "idle"
    /\ parseErr = ""

\* a key that is not there
NoKey == << >>

\* No run is carrying a masternode key.
KeyIdle ==
    /\ keyIn = [create |-> FALSE, update |-> FALSE, name |-> ""]
    /\ mnPrivateKey = NoKey
    /\ mnRegistry = << >>
    /\ genkeyOut = << >>
    /\ keyPc = "idle"
    /\ keyErr = ""
    /\ remoteCmdLine = << >>

\* runRemoteStart was not called.
NoRsIn ==
    [tool |-> "", name |-> "", activate |-> FALSE, extIP |-> "", ReIndex |-> FALSE,
     Legacy |-> FALSE, devMode |-> FALSE, PastelExecDir |-> "", WorkingDir |-> ""]

RemoteStartIdle ==
    /\ rsIn = NoRsIn
    /\ startOptions = ""
    /\ rsSent = << >>
    /\ rsFailed = FALSE
    /\ rsPc = "idle"
    /\ rsErr = ""

\* CheckPastelDRunningRemote was not called.
ChkIdle ==
    /\ chkSite = [file |-> "", line |-> 0, want |-> FALSE]
    /\ chkFailCnt = 0
    /\ chkAnswered = FALSE
    /\ chkRet = "none"
    /\ chkPc = "idle"
    /\ chkErr = ""

LateIdle == ParseIdle /\ KeyIdle /\ RemoteStartIdle /\ ChkIdle

\* None of the stand-alone helpers is running.
ToolsIdle == NodeIdle /\ SnStartIdle /\ ChInitIdle /\ InstallIdle /\ CtxIdle /\ LateIdle

Init ==
    /\ pc = "handleArgs"
    /\ at = ""
    /\ err = ""
    /\ flags \in [create : BOOLEAN, update : BOOLEAN, activate : BOOLEAN, extIP : BOOLEAN]
    /\ sshOpen = FALSE
    /\ sshCmds = {}
    /\ localRunning = FALSE
    /\ remote = "down"
    /\ remoteStopping = FALSE
    /\ gor = [s \in LaunchSteps |-> "none"]
    /\ executed = {}
    /\ failed = {}
    /\ failCnt = 0
    /\ queries = 0
    /\ sleeps = 0
    /\ checkRes = "none"
    /\ retryCount = 0
    /\ statusFails = 0
    /\ responses = << >>
    /\ resets = 0
    /\ syncRes = "none"
    /\ aliasOutput = NoAliasOutput
    /\ ResolverIdle
    /\ ConfIdle
    /\ MnIdle
    /\ SmIdle
    /\ ToolsIdle

\* A step that touches neither daemon nor the session.
PlainStep(step) ==
    /\ pc = step
    /\ \E ok \in BOOLEAN : Finish(step, ok)
    /\ UNCHANGED <<auxVars, actVars, flags, sshOpen, sshCmds, localRunning>>
    /\ UNCHANGED <<envVars, checkVars, syncVars>>

\* A command run synchronously on the SSH session that does not change the daemon.
RemoteCmdStep(step, kind) ==
    /\ pc = step
    /\ sshCmds' = sshCmds \cup {kind}
    /\ \E ok \in BOOLEAN : Finish(step, ok)
    /\ UNCHANGED <<auxVars, actVars, flags, sshOpen, localRunning>>
    /\ UNCHANGED <<envVars, checkVars, syncVars>>

HandleArgs == PlainStep("handleArgs")

HandleConfigs == PlainStep("handleConfigs")

ConnectSSH ==
    /\ pc = "connectSSH"
    /\ \E ok \in BOOLEAN :
        /\ Finish("connectSSH", ok)
        /\ sshOpen' = ok
    /\ UNCHANGED <<auxVars, actVars, flags, sshCmds, localRunning>>
    /\ UNCHANGED <<envVars, checkVars, syncVars>>

GetExtIP == RemoteCmdStep("getExtIP", "curl")

-----------------------------------------------------------------------------
(* Run: the local daemon *)

\* runPastelNode(ctx, r.config, true, "", ""): the local daemon runs once it
\* returned nil; when it returned an error the daemon may have come up too late.
RunPastelNode(step) ==
    /\ pc = step
    /\ \E ok \in BOOLEAN :
        /\ Finish(step, ok)
        /\ localRunning' \in (IF ok THEN {TRUE} ELSE {localRunning, TRUE})
    /\ UNCHANGED <<auxVars, actVars, flags, sshOpen, sshCmds>>
    /\ UNCHANGED <<envVars, checkVars, syncVars>>

RunPastelNode1 == RunPastelNode("runPastelNode1")

RestartColdNode == RunPastelNode("runPastelNode2")

\* StopPastelDAndWait: the local daemon is gone once it returned nil; when it
\* returned an error the daemon may be gone or not.
StopPastelDAndWait(step) ==
    /\ pc = step
    /\ \E ok \in BOOLEAN :
        /\ Finish(step, ok)
        /\ localRunning' \in (IF ok THEN {FALSE} ELSE {localRunning, FALSE})
    /\ UNCHANGED <<auxVars, actVars, flags, sshOpen, sshCmds>>
    /\ UNCHANGED <<envVars, checkVars, syncVars>>

StopLocalNode == StopPastelDAndWait("StopPastelDAndWait1")

StopColdNode == StopPastelDAndWait("StopPastelDAndWait2")

-----------------------------------------------------------------------------
(* Run: the masternode parameters (handleCreateUpdateStartColdHot) *)

CheckCollateral == PlainStep("checkCollateral")

CheckPassphrase == PlainStep("checkPassphrase")

\* A value that is generated on the hot node unless it was supplied.
GenerateOnHotNode(step, kind) ==
    /\ pc = step
    /\ \E given \in BOOLEAN :
        IF given
        THEN /\ Finish(step, TRUE)
             /\ sshCmds' = sshCmds
        ELSE /\ sshCmds' = sshCmds \cup {kind}
             /\ \E ok \in RemoteRpcOutcomes : Finish(step, ok)
    /\ UNCHANGED <<auxVars, actVars, flags, sshOpen, localRunning>>
    /\ UNCHANGED <<envVars, checkVars, syncVars>>

CheckMasternodePrivKey == GenerateOnHotNode("checkMasternodePrivKey", "pastel-cli")

CheckPastelID == GenerateOnHotNode("checkPastelID", "pastel-cli")

BackupConfFile == PlainStep("backupConfFile")

CreateOrUpdateMasternodeConf == PlainStep("createOrUpdateMasternodeConf")

CreateOrUpdateSuperNodeConfig == PlainStep("createOrUpdateSuperNodeConfig")

-----------------------------------------------------------------------------
(* Run: launching and stopping the remote daemon *)

\* go func() { r.sshClient.Cmd(<pasteld ... --daemon>).Run() }(): the launch is
\* handed to a goroutine and the caller goes on at once.
SpawnLaunch(step) ==
    /\ pc = step
    /\ gor' = [gor EXCEPT ![step] = "spawned"]
    /\ Finish(step, TRUE)
    /\ UNCHANGED <<auxVars, actVars, flags, sshOpen, sshCmds, localRunning, remote, remoteStopping>>
    /\ UNCHANGED <<checkVars, syncVars>>

HcuLaunch == SpawnLaunch("hcuLaunch")

HotLaunch == SpawnLaunch("hotLaunch")

MnLaunch == SpawnLaunch("mnLaunch")

\* (mutant) the launch command is sent before its launch site is reached
GoIssueUnspawned(site) ==
    /\ gor[site] \in {"none", "spawned"}
    /\ pc # "done"
    /\ gor' = [gor EXCEPT ![site] = "inflight"]
    /\ sshCmds' = sshCmds \cup {"pasteld"}
    /\ IF remote = "down"
       THEN remote' \in { LaunchMode(site), "down" }
       ELSE remote' = remote
    /\ UNCHANGED <<auxVars, actVars, flags, sshOpen, localRunning, remoteStopping>>
    /\ UNCHANGED <<ctlVars, checkVars, syncVars>>

\* The goroutine sends its launch command: a daemon comes up (or fails to) unless
\* one is already there.
GoIssue(site) ==
    /\ gor[site] = "spawned"
    /\ pc # "done"
    /\ gor' = [gor EXCEPT ![site] = "inflight"]
    /\ sshCmds' = sshCmds \cup {"pasteld"}
    /\ IF remote = "down"
       THEN remote' \in { LaunchMode(site), "down" }
       ELSE remote' = remote
    /\ UNCHANGED <<auxVars, actVars, flags, sshOpen, localRunning, remoteStopping>>
    /\ UNCHANGED <<ctlVars, checkVars, syncVars>>

\* The goroutine's command returned.
GoReturn(site) ==
    /\ gor[site] = "inflight"
    /\ pc # "done"
    /\ gor' = [gor EXCEPT ![site] = "done"]
    /\ UNCHANGED <<auxVars, actVars, flags, sshOpen, sshCmds, localRunning, remote, remoteStopping>>
    /\ UNCHANGED <<ctlVars, checkVars, syncVars>>

GoLaunchIssue == \E site \in LaunchSteps : GoIssue(site)

GoLaunchReturn == \E site \in LaunchSteps : GoReturn(site)

\* "<pastel-cli> stop" on the session, then time.Sleep(5 * time.Second).
RemoteStop(step) ==
    /\ pc = step
    /\ sshCmds' = sshCmds \cup {"pastel-cli"}
    /\ \E ok \in RemoteRpcOutcomes :
        /\ Finish(step, ok)
        /\ remoteStopping' = (ok \/ remoteStopping)
    /\ UNCHANGED <<auxVars, actVars, flags, sshOpen, localRunning, remote, gor>>
    /\ UNCHANGED <<checkVars, syncVars>>

HcuStop == RemoteStop("hcuStop")

HotStop == RemoteStop("hotStop")

\* The remote daemon that was told to stop exits.
RemoteExit ==
    /\ remoteStopping
    /\ remote' = "down"
    /\ remoteStopping' = FALSE
    /\ UNCHANGED <<auxVars, actVars, flags, sshOpen, sshCmds, localRunning, gor>>
    /\ UNCHANGED <<ctlVars, checkVars, syncVars>>

-----------------------------------------------------------------------------
(* CheckPastelDRunningRemote *)

\* The `want` argument at each call site.
Want(step) == TRUE

\* (mutant) the budget test is off by one
GiveUpLate(cnt) == cnt > MaxFailCnt

\* if failCnt == 12 { return false }
GiveUp(cnt) == cnt = MaxFailCnt

\* The value returned when the query failed and !want.
StoppedResult == "false"

\* One pass of the for loop: a getinfo query and what follows it.
CheckPastelDRunningRemote ==
    /\ pc \in CheckSteps
    /\ at = "getinfo"
    /\ sshCmds' = sshCmds \cup {"pastel-cli"}
    /\ queries' = queries + 1
    /\ \E ok \in RemoteRpcOutcomes :
        IF ok
        THEN /\ checkRes' = "true"
             /\ at' = "ret"
             /\ UNCHANGED <<failCnt, sleeps>>
        ELSE IF ~Want(pc)
        THEN /\ checkRes' = StoppedResult
             /\ at' = "ret"
             /\ UNCHANGED <<failCnt, sleeps>>
        ELSE /\ sleeps' = sleeps + 1
             /\ failCnt' = failCnt + 1
             /\ IF GiveUp(failCnt')
                THEN checkRes' = "false" /\ at' = "ret"
                ELSE checkRes' = checkRes /\ at' = at
    /\ UNCHANGED <<pc, err, executed, failed>>
    /\ UNCHANGED <<auxVars, actVars, flags, sshOpen, localRunning>>
    /\ UNCHANGED <<envVars, syncVars>>

\* The caller's `if !CheckPastelDRunningRemote(...) { return err }`.
CheckReturn ==
    /\ pc \in CheckSteps
    /\ at = "ret"
    /\ Finish(pc, checkRes = "true")
    /\ failCnt' = 0
    /\ queries' = 0
    /\ sleeps' = 0
    /\ checkRes' = "none"
    /\ UNCHANGED <<auxVars, actVars, flags, sshOpen, sshCmds, localRunning>>
    /\ UNCHANGED <<envVars, syncVars>>

-----------------------------------------------------------------------------
(* checkMasterNodeSyncRemote *)

\* What "mnsync status" can print: the daemon derives AssetName and IsSynced from
\* one sync asset, so IsSynced is true for the finished asset alone; or a payload
\* that is no JSON.
StatusPayloads ==
    { [valid |-> TRUE,  AssetName |-> "Initial",  IsSynced |-> FALSE],
      [valid |-> TRUE,  AssetName |-> "Syncing",  IsSynced |-> FALSE],
      [valid |-> TRUE,  AssetName |-> "Finished", IsSynced |-> TRUE],
      [valid |-> FALSE, AssetName |-> "",         IsSynced |-> FALSE] }

\* json.Unmarshal into structure.RPCPastelMSStatus: the fields the loop reads.
Unmarshal(payload) == [AssetName |-> payload.AssetName, IsSynced |-> payload.IsSynced]

\* The response the current pass of the loop is handling.
mnstatus == responses[Len(responses)]

\* (mutant) a reset on every response that is not synced
NeedsResetUnsynced(st) == ~st.IsSynced

\* if mnstatus.AssetName == "Initial"
NeedsReset(st) == st.AssetName = "Initial"

\* (mutant) a failed query is retried every time
MayRetryAlways(cnt) == TRUE

\* if retryCount == 0 { sleep 5 seconds; return r.checkMasterNodeSyncRemote(ctx, 1) }
MayRetry(cnt) == cnt = 0

\* The "mnsync status" query of one pass, with the single retry of a failed query.
SyncStatus ==
    /\ pc \in SyncSteps
    /\ at = "status"
    /\ Len(responses) < MaxPolls
    /\ sshCmds' = sshCmds \cup {"pastel-cli"}
    /\ \E ok \in RemoteRpcOutcomes :
        IF ~ok
        THEN /\ statusFails' = statusFails + 1
             /\ IF MayRetry(retryCount)
                THEN retryCount' = 1 /\ syncRes' = syncRes /\ at' = at
                ELSE retryCount' = retryCount /\ syncRes' = "status" /\ at' = "ret"
             /\ UNCHANGED responses
        ELSE \E payload \in StatusPayloads :
             IF ~payload.valid
             THEN /\ syncRes' = "unmarshal"
                  /\ at' = "ret"
                  /\ UNCHANGED <<retryCount, statusFails, responses>>
             ELSE /\ responses' = Append(responses, Unmarshal(payload))
                  /\ at' = "initial"
                  /\ UNCHANGED <<retryCount, statusFails, syncRes>>
    /\ UNCHANGED resets
    /\ UNCHANGED <<pc, err, executed, failed>>
    /\ UNCHANGED <<auxVars, actVars, flags, sshOpen, localRunning>>
    /\ UNCHANGED <<envVars, checkVars>>

\* The reset on "Initial" and the 10 second sleep after it.
SyncInitial ==
    /\ pc \in SyncSteps
    /\ at = "initial"
    /\ IF NeedsReset(mnstatus)
       THEN /\ sshCmds' = sshCmds \cup {"pastel-cli"}
            /\ resets' = resets + 1
            /\ \E ok \in RemoteRpcOutcomes :
                IF ok THEN at' = "synced" /\ syncRes' = syncRes
                      ELSE at' = "ret" /\ syncRes' = "reset"
       ELSE /\ at' = "synced"
            /\ UNCHANGED <<sshCmds, resets, syncRes>>
    /\ UNCHANGED <<retryCount, statusFails, responses>>
    /\ UNCHANGED <<pc, err, executed, failed>>
    /\ UNCHANGED <<auxVars, actVars, flags, sshOpen, localRunning>>
    /\ UNCHANGED <<envVars, checkVars>>

\* (mutant) the wait gives up after three responses
SyncSyncedBounded ==
    /\ pc \in SyncSteps
    /\ at = "synced"
    /\ IF mnstatus.IsSynced
       THEN at' = "ret" /\ syncRes' = "ok"
       ELSE IF Len(responses) >= 3
       THEN at' = "ret" /\ syncRes' = "status"
       ELSE at' = "status" /\ syncRes' = syncRes
    /\ UNCHANGED <<retryCount, statusFails, responses, resets>>
    /\ UNCHANGED <<pc, err, executed, failed>>
    /\ UNCHANGED <<auxVars, actVars, flags, sshOpen, sshCmds, localRunning>>
    /\ UNCHANGED <<envVars, checkVars>>

\* if mnstatus.IsSynced { break }, else sleep 10 seconds and poll again.
SyncSynced ==
    /\ pc \in SyncSteps
    /\ at = "synced"
    /\ IF mnstatus.IsSynced
       THEN at' = "ret" /\ syncRes' = "ok"
       ELSE at' = "status" /\ syncRes' = syncRes
    /\ UNCHANGED <<retryCount, statusFails, responses, resets>>
    /\ UNCHANGED <<pc, err, executed, failed>>
    /\ UNCHANGED <<auxVars, actVars, flags, sshOpen, sshCmds, localRunning>>
    /\ UNCHANGED <<envVars, checkVars>>

\* The caller's `if err := r.checkMasterNodeSyncRemote(ctx, 0); err != nil { return err }`.
SyncReturn ==
    /\ pc \in SyncSteps
    /\ at = "ret"
    /\ Finish(pc, syncRes = "ok")
    /\ retryCount' = 0
    /\ statusFails' = 0
    /\ responses' = << >>
    /\ resets' = 0
    /\ syncRes' = "none"
    /\ UNCHANGED <<auxVars, actVars, flags, sshOpen, sshCmds, localRunning>>
    /\ UNCHANGED <<envVars, checkVars>>

-----------------------------------------------------------------------------
(* Run: masternode launch, activation, remote services *)

GetMasternodeConfData == PlainStep("getMasternodeConfData")

CheckMasterNodeSync == PlainStep("CheckMasterNodeSync")

\* What RunPastelCLI("masternode", "start-alias", name) can give: an error, text
\* that is no JSON object, or an object with or without a "result" field.
AliasOutputs ==
    { [rpcOk |-> FALSE, json |-> "", result |-> ""],
      [rpcOk |-> TRUE, json |-> "garbage", result |-> ""],
      [rpcOk |-> TRUE, json |-> "object", result |-> "failed"],
      [rpcOk |-> TRUE, json |-> "object", result |-> "successful"],
      [rpcOk |-> TRUE, json |-> "object", result |-> ""] }

\* (mutant) a "failed" result is not an error
StartAliasErrorFailedIgnored(out) ==
    IF ~out.rpcOk THEN "RunPastelCLI"
    ELSE IF out.json # "object" THEN "Unmarshal"
    ELSE ""

\* The error runStartAliasMasternode returns for an output, "" for nil.
StartAliasError(out) ==
    IF ~out.rpcOk THEN "RunPastelCLI"
    ELSE IF out.json # "object" THEN "Unmarshal"
    ELSE IF out.result = "failed" THEN "masternode start alias failed"
    ELSE ""

\* if err = runStartAliasMasternode(...); err != nil { return "masternode
\* activation failed" }
RunStartAliasMasternode ==
    /\ pc = "runStartAliasMasternode"
    /\ \E out \in AliasOutputs :
        /\ aliasOutput' = out
        /\ Finish("runStartAliasMasternode", StartAliasError(out) = "")
    /\ UNCHANGED <<auxVars, flags, sshOpen, sshCmds, localRunning>>
    /\ UNCHANGED <<envVars, checkVars, syncVars>>

RegisterTicketPastelID == RemoteCmdStep("registerTicketPastelID", "pastel-cli")

RunServiceRemote ==
    \E step \in { "rqService", "ddService", "snService" } :
        RemoteCmdStep(step, "pastel-utility")

Scp == RemoteCmdStep("scp", "scp")

Chmod == RemoteCmdStep("chmod", "chmod")

\* return nil at the end of Run.
Return ==
    /\ pc = "return"
    /\ pc' = "done"
    /\ UNCHANGED <<at, err, executed, failed>>
    /\ UNCHANGED <<auxVars, actVars, flags, sshOpen, sshCmds, localRunning>>
    /\ UNCHANGED <<envVars, checkVars, syncVars>>

-----------------------------------------------------------------------------

Next ==
    \/ HandleArgs
    \/ HandleConfigs
    \/ ConnectSSH
    \/ GetExtIP
    \/ RunPastelNode1
    \/ CheckCollateral
    \/ CheckPassphrase
    \/ HcuLaunch
    \/ CheckPastelDRunningRemote
    \/ CheckReturn
    \/ CheckMasternodePrivKey
    \/ CheckPastelID
    \/ HcuStop
    \/ BackupConfFile
    \/ CreateOrUpdateMasternodeConf
    \/ CreateOrUpdateSuperNodeConfig
    \/ StopLocalNode
    \/ HotLaunch
    \/ SyncStatus
    \/ SyncInitial
    \/ SyncSynced
    \/ SyncReturn
    \/ HotStop
    \/ GetMasternodeConfData
    \/ MnLaunch
    \/ RestartColdNode
    \/ CheckMasterNodeSync
    \/ RunStartAliasMasternode
    \/ RegisterTicketPastelID
    \/ StopColdNode
    \/ RunServiceRemote
    \/ Scp
    \/ Chmod
    \/ Return
    \/ GoLaunchIssue
    \/ GoLaunchReturn
    \/ RemoteExit

Spec == Init /\ [][Next]_vars

-----------------------------------------------------------------------------
(* The masternode parameter resolver: prepareMasterNodeParameters and the   *)
(* check* functions of cmd/start.go, called with client == nil              *)

\* ColdHotRunner is not running.
RunIdle ==
    /\ pc = "idle"
    /\ at = ""
    /\ err = ""
    /\ flags = [create |-> FALSE, update |-> FALSE, activate |-> FALSE, extIP |-> FALSE]
    /\ sshOpen = FALSE
    /\ sshCmds = {}
    /\ localRunning = FALSE
    /\ remote = "down"
    /\ remoteStopping = FALSE
    /\ gor = [s \in LaunchSteps |-> "none"]
    /\ executed = {}
    /\ failed = {}
    /\ failCnt = 0
    /\ queries = 0
    /\ sleeps = 0
    /\ checkRes = "none"
    /\ retryCount = 0
    /\ statusFails = 0
    /\ responses = << >>
    /\ resets = 0
    /\ syncRes = "none"
    /\ aliasOutput = NoAliasOutput

\* rounds of the collateral wait loop the user is followed through
MaxRounds == 3

\* for i := 1; i <= 10; i++
WaitAttempts == 10

\* transaction ids and output indexes the user and the wallet can name
TxIDs == { "txA", "txB" }
Inds  == { "0", "1" }

\* What "masternode outputs" can return: a map from txid to output index.
MnOutputs == UNION { [D -> Inds] : D \in SUBSET TxIDs }

\* The steps of prepareMasterNodeParameters, in program order.
PrepareOrder ==
    << "runPastelNode", "CheckMasterNodeSync", "checkCollateral", "checkPassphrase",
       "checkMasternodePrivKey", "checkPastelID", "StopPastelDAndWait" >>

\* if startPasteld { ... }
PrepareEnabled(step) ==
    step \in { "runPastelNode", "StopPastelDAndWait" } => startPasteld

PrepareIndex(step) == CHOOSE n \in 1..Len(PrepareOrder) : PrepareOrder[n] = step

\* The step executed after `step` returned nil; "return" at the end.
PrepareNext(step) ==
    LET later == { n \in (PrepareIndex(step) + 1)..Len(PrepareOrder) :
                       PrepareEnabled(PrepareOrder[n]) }
    IN  IF later = {} THEN "return"
        ELSE PrepareOrder[CHOOSE n \in later : \A m \in later : n <= m]

\* if err != nil { return err }
PrepareFail(step) ==
    /\ rpc' = "done"
    /\ rerr' = step

\* The values a check* function leaves alone.
CollateralMissing == flagMasterNodeTxID = "" \/ flagMasterNodeInd = ""

\* what the resolver never touches
notResolver == <<runVars, confVars, mnVars, smVars, toolVars>>

InitResolver ==
    /\ RunIdle
    /\ ConfIdle
    /\ MnIdle
    /\ SmIdle
    /\ ToolsIdle
    /\ flagMasterNodeTxID \in TxIDs \cup {""}
    /\ flagMasterNodeInd \in Inds \cup {""}
    /\ flagMasterNodePassPhrase \in {"", "pw"}
    /\ flagMasterNodePrivateKey \in {"", "key"}
    /\ flagMasterNodePastelID \in {"", "id"}
    /\ entry = [txid |-> flagMasterNodeTxID, ind |-> flagMasterNodeInd,
                passphrase |-> flagMasterNodePassPhrase,
                pkey |-> flagMasterNodePrivateKey,
                pastelid |-> flagMasterNodePastelID]
    /\ startPasteld \in BOOLEAN
    /\ rpc = IF startPasteld THEN "runPastelNode" ELSE "CheckMasterNodeSync"
    /\ rerr = ""
    /\ prompts = 0
    /\ rpcCalls = {}
    /\ waitI = 0
    /\ round = 0
    /\ roundQueries = 0

\* A step of prepareMasterNodeParameters that changes no flag.
PrepareStep(step, rpcName) ==
    /\ rpc = step
    /\ rpcCalls' = (IF rpcName = "" THEN rpcCalls ELSE rpcCalls \cup {rpcName})
    /\ \E ok \in BOOLEAN :
        IF ok THEN rpc' = PrepareNext(step) /\ rerr' = rerr
              ELSE PrepareFail(step)
    /\ UNCHANGED <<mnFlags, entry, startPasteld, prompts, waitI, round, roundQueries>>
    /\ UNCHANGED notResolver

prepareRunPastelNode == PrepareStep("runPastelNode", "")

prepareCheckMasterNodeSync == PrepareStep("CheckMasterNodeSync", "mnsync status")

prepareStopPastelDAndWait == PrepareStep("StopPastelDAndWait", "")

prepareReturn ==
    /\ rpc = "return"
    /\ rpc' = "done"
    /\ UNCHANGED <<mnFlags, entry, startPasteld, rerr, prompts, rpcCalls,
                   waitI, round, roundQueries>>
    /\ UNCHANGED notResolver

\* checkCollateral, first block: with no txid or no index, offer the wallet's
\* collateral-ready outputs and take the one the user picks.
checkCollateralSearch ==
    /\ rpc = "checkCollateral"
    /\ IF CollateralMissing
       THEN \E yes \in BOOLEAN :
            IF ~yes
            THEN /\ prompts' = prompts + 1
                 /\ rpc' = "newAddress" /\ rerr' = rerr
                 /\ UNCHANGED <<flagMasterNodeTxID, flagMasterNodeInd, rpcCalls>>
            ELSE /\ rpcCalls' = rpcCalls \cup {"masternode outputs"}
                 /\ \E ok \in BOOLEAN, mnOutputs \in MnOutputs :
                    IF ~ok
                    THEN /\ prompts' = prompts + 1
                         /\ PrepareFail("checkCollateral")
                         /\ UNCHANGED <<flagMasterNodeTxID, flagMasterNodeInd>>
                    ELSE IF DOMAIN mnOutputs = {}
                    THEN /\ prompts' = prompts + 1
                         /\ rpc' = "newAddress" /\ rerr' = rerr
                         /\ UNCHANGED <<flagMasterNodeTxID, flagMasterNodeInd>>
                    ELSE /\ prompts' = prompts + 2
                         /\ \E pick \in DOMAIN mnOutputs \cup {"N"} :
                            IF pick = "N"
                            THEN /\ PrepareFail("checkCollateral")
                                 /\ UNCHANGED <<flagMasterNodeTxID, flagMasterNodeInd>>
                            ELSE /\ flagMasterNodeTxID' = pick
                                 /\ flagMasterNodeInd' = mnOutputs[pick]
                                 /\ rpc' = "newAddress" /\ rerr' = rerr
       ELSE /\ rpc' = "newAddress" /\ rerr' = rerr
            /\ UNCHANGED <<flagMasterNodeTxID, flagMasterNodeInd, prompts, rpcCalls>>
    /\ UNCHANGED <<flagMasterNodePassPhrase, flagMasterNodePrivateKey,
                   flagMasterNodePastelID>>
    /\ UNCHANGED <<entry, startPasteld, waitI, round, roundQueries>>
    /\ UNCHANGED notResolver

\* checkCollateral, second block: still no txid or no index, so a new address is
\* generated and the user types the txid of the payment; then the loop starts.
checkCollateralNewAddress ==
    /\ rpc = "newAddress"
    /\ IF CollateralMissing
       THEN \E yes \in BOOLEAN :
            IF ~yes
            THEN /\ prompts' = prompts + 1
                 /\ PrepareFail("checkCollateral")
                 /\ UNCHANGED <<flagMasterNodeTxID, rpcCalls>>
            ELSE /\ rpcCalls' = rpcCalls \cup {"getnewaddress"}
                 /\ \E ok \in BOOLEAN :
                    IF ~ok
                    THEN /\ prompts' = prompts + 1
                         /\ PrepareFail("checkCollateral")
                         /\ UNCHANGED flagMasterNodeTxID
                    ELSE /\ prompts' = prompts + 2
                         /\ \E newTxid \in TxIDs \cup {""} :
                                flagMasterNodeTxID' = newTxid
                         /\ rpc' = "wait" /\ rerr' = rerr
       ELSE /\ rpc' = "wait" /\ rerr' = rerr
            /\ UNCHANGED <<flagMasterNodeTxID, prompts, rpcCalls>>
    /\ waitI' = 1
    /\ round' = 1
    /\ roundQueries' = 0
    /\ UNCHANGED <<flagMasterNodeInd, flagMasterNodePassPhrase,
                   flagMasterNodePrivateKey, flagMasterNodePastelID>>
    /\ UNCHANGED <<entry, startPasteld>>
    /\ UNCHANGED notResolver

\* One pass of `for i := 1; i <= 10; i++`: a "masternode outputs" query; the index
\* is taken from the wallet when the txid is there, else a 10 second sleep.
checkCollateralWait ==
    /\ rpc = "wait"
    /\ waitI <= WaitAttempts
    /\ rpcCalls' = rpcCalls \cup {"masternode outputs"}
    /\ roundQueries' = roundQueries + 1
    /\ \E ok \in BOOLEAN, mnOutputs \in MnOutputs :
        IF ~ok
        THEN /\ PrepareFail("checkCollateral")
             /\ UNCHANGED <<flagMasterNodeInd, waitI>>
        ELSE IF flagMasterNodeTxID \in DOMAIN mnOutputs
        THEN /\ flagMasterNodeInd' = mnOutputs[flagMasterNodeTxID]
             /\ rpc' = "collateralEnd" /\ rerr' = rerr
             /\ UNCHANGED waitI
        ELSE /\ IF waitI = WaitAttempts
                THEN rpc' = "reprompt" /\ waitI' = waitI
                ELSE rpc' = rpc /\ waitI' = waitI + 1
             /\ rerr' = rerr
             /\ UNCHANGED flagMasterNodeInd
    /\ UNCHANGED <<flagMasterNodeTxID, flagMasterNodePassPhrase,
                   flagMasterNodePrivateKey, flagMasterNodePastelID>>
    /\ UNCHANGED <<entry, startPasteld, prompts, round>>
    /\ UNCHANGED notResolver

\* The value the body gives i when the user answers yes: i = 1.
AfterContinue == 1

\* if i == 10 { "Still no collateral transaction. Continue? - Y/N" }: no returns an
\* error; yes sets i = 1, and the loop's i++ follows before the next pass.
checkCollateralReprompt ==
    /\ rpc = "reprompt"
    /\ prompts' = prompts + 1
    /\ \E yes \in BOOLEAN :
        IF ~yes
        THEN /\ PrepareFail("checkCollateral")
             /\ UNCHANGED <<waitI, round, roundQueries>>
        ELSE /\ round < MaxRounds
             /\ waitI' = AfterContinue + 1
             /\ round' = round + 1
             /\ roundQueries' = 0
             /\ rpc' = "wait" /\ rerr' = rerr
    /\ UNCHANGED <<mnFlags, entry, startPasteld, rpcCalls>>
    /\ UNCHANGED notResolver

\* After the loop: "Cannot find masternode outputs" when a value is still empty.
checkCollateralEnd ==
    /\ rpc = "collateralEnd"
    /\ IF CollateralMissing
       THEN PrepareFail("checkCollateral")
       ELSE rpc' = PrepareNext("checkCollateral") /\ rerr' = rerr
    /\ UNCHANGED <<mnFlags, entry, startPasteld, prompts, rpcCalls,
                   waitI, round, roundQueries>>
    /\ UNCHANGED notResolver

\* What the user can type at the passphrase prompt.
PassphraseInputs == { "newpw", "N", "n", "" }

checkPassphrase ==
    /\ rpc = "checkPassphrase"
    /\ IF flagMasterNodePassPhrase = ""
       THEN /\ prompts' = prompts + 1
            /\ \E input \in PassphraseInputs :
                IF input \in {"N", "n", ""}
                THEN /\ flagMasterNodePassPhrase' = ""
                     /\ PrepareFail("checkPassphrase")
                ELSE /\ flagMasterNodePassPhrase' = input
                     /\ rpc' = PrepareNext("checkPassphrase") /\ rerr' = rerr
       ELSE /\ rpc' = PrepareNext("checkPassphrase") /\ rerr' = rerr
            /\ UNCHANGED <<flagMasterNodePassPhrase, prompts>>
    /\ UNCHANGED <<flagMasterNodeTxID, flagMasterNodeInd, flagMasterNodePrivateKey,
                   flagMasterNodePastelID>>
    /\ UNCHANGED <<entry, startPasteld, rpcCalls, waitI, round, roundQueries>>
    /\ UNCHANGED notResolver

checkMasternodePrivKey ==
    /\ rpc = "checkMasternodePrivKey"
    /\ IF flagMasterNodePrivateKey = ""
       THEN /\ rpcCalls' = rpcCalls \cup {"masternode genkey"}
            /\ \E ok \in BOOLEAN :
                IF ok
                THEN /\ flagMasterNodePrivateKey' = "genkey"
                     /\ rpc' = PrepareNext("checkMasternodePrivKey") /\ rerr' = rerr
                ELSE /\ PrepareFail("checkMasternodePrivKey")
                     /\ UNCHANGED flagMasterNodePrivateKey
       ELSE /\ rpc' = PrepareNext("checkMasternodePrivKey") /\ rerr' = rerr
            /\ UNCHANGED <<flagMasterNodePrivateKey, rpcCalls>>
    /\ UNCHANGED <<flagMasterNodeTxID, flagMasterNodeInd, flagMasterNodePassPhrase,
                   flagMasterNodePastelID>>
    /\ UNCHANGED <<entry, startPasteld, prompts, waitI, round, roundQueries>>
    /\ UNCHANGED notResolver

\* "pastelid newkey <passphrase>", then json.Unmarshal of what it printed.
checkPastelID ==
    /\ rpc = "checkPastelID"
    /\ IF flagMasterNodePastelID # ""
       THEN /\ rpc' = PrepareNext("checkPastelID") /\ rerr' = rerr
            /\ UNCHANGED <<flagMasterNodePastelID, rpcCalls>>
       ELSE IF flagMasterNodePassPhrase = ""
       THEN /\ PrepareFail("checkPastelID")
            /\ UNCHANGED <<flagMasterNodePastelID, rpcCalls>>
       ELSE /\ rpcCalls' = rpcCalls \cup {"pastelid newkey"}
            /\ \E ok \in BOOLEAN, parses \in BOOLEAN :
                IF ok /\ parses
                THEN /\ flagMasterNodePastelID' = "newid"
                     /\ rpc' = PrepareNext("checkPastelID") /\ rerr' = rerr
                ELSE /\ PrepareFail("checkPastelID")
                     /\ UNCHANGED flagMasterNodePastelID
    /\ UNCHANGED <<flagMasterNodeTxID, flagMasterNodeInd, flagMasterNodePassPhrase,
                   flagMasterNodePrivateKey>>
    /\ UNCHANGED <<entry, startPasteld, prompts, waitI, round, roundQueries>>
    /\ UNCHANGED notResolver

NextResolver ==
    \/ prepareRunPastelNode
    \/ prepareCheckMasterNodeSync
    \/ checkCollateralSearch
    \/ checkCollateralNewAddress
    \/ checkCollateralWait
    \/ checkCollateralReprompt
    \/ checkCollateralEnd
    \/ checkPassphrase
    \/ checkMasternodePrivKey
    \/ checkPastelID
    \/ prepareStopPastelDAndWait
    \/ prepareReturn

SpecResolver == InitResolver /\ [][NextResolver]_vars

-----------------------------------------------------------------------------
(* The two places the resolved identity is written to: masternode.conf and  *)
(* supernode.yml (ColdHotRunner.Run lines 138-145)                          *)

\* what the configuration writers never touch
notConf == <<runVars, resolverVars, mnVars, smVars, toolVars>>

\* The node section of the file utils.GetServiceConfig renders from the
\* configs.SuperNodeConfig value of lines 1147-1171: that value carries neither
\* the PastelID nor the passphrase, so the rendering cannot depend on them.
NewSuperNodeConfig == SnNode("", "")

\* The four assignments to the node section: pastel_id and pass_phrase from the
\* flags, the two storage challenge keys from the constants package.
UpdatedSuperNodeConfig ==
    [snConf EXCEPT !.pastel_id = flagMasterNodePastelID,
                   !.pass_phrase = flagMasterNodePassPhrase,
                   !.storage_challenge_expired_duration = "constant",
                   !.number_of_challenge_replicas = "constant"]

\* supernode.yml as it can be found on disk.
SnConfFiles ==
    { SnFile("absent"), SnFile("empty"), SnFile("garbage") }
    \cup { [SnNode(id, pass) EXCEPT !.storage_challenge_expired_duration = tuning,
                                    !.number_of_challenge_replicas = tuning,
                                    !.node_port = other,
                                    !.p2p = other] :
             id \in {"", "id", "oldid"}, pass \in {"", "pw", "oldpw"},
             tuning \in {"constant", "edited"}, other \in {"default", "edited"} }

InitConf ==
    /\ RunIdle
    /\ MnIdle
    /\ SmIdle
    /\ ToolsIdle
    /\ ResolverAtRest
    /\ flagMasterNodeTxID = "txA"
    /\ flagMasterNodeInd = "0"
    /\ flagMasterNodePrivateKey = "key"
    /\ flagMasterNodePassPhrase \in {"pw", "newpw"}
    /\ flagMasterNodePastelID \in {"id", "newid"}
    /\ masternodeConf \in { NoEntry, [written |-> TRUE, pastelid |-> "oldid"] }
    /\ snConf \in SnConfFiles
    /\ confPc = "createOrUpdateMasternodeConf"
    /\ confErr = ""

\* createOrUpdateMasternodeConf: the node's entry is written with the resolved
\* values, or an error is returned.
createOrUpdateMasternodeConf ==
    /\ confPc = "createOrUpdateMasternodeConf"
    /\ \E ok \in BOOLEAN :
        IF ok
        THEN /\ masternodeConf' = [written |-> TRUE, pastelid |-> flagMasterNodePastelID]
             /\ confPc' = "createOrUpdateSuperNodeConfig"
             /\ confErr' = confErr
        ELSE /\ confPc' = "done"
             /\ confErr' = "createOrUpdateMasternodeConf"
             /\ UNCHANGED masternodeConf
    /\ UNCHANGED snConf
    /\ UNCHANGED notConf

\* createOrUpdateSuperNodeConfig, os.IsNotExist branch: the file is created and the
\* rendered default configuration is written to it.
createSuperNodeConfig ==
    /\ confPc = "createOrUpdateSuperNodeConfig"
    /\ snConf.state = "absent"
    /\ \E created \in BOOLEAN, rendered \in BOOLEAN, written \in BOOLEAN :
        IF ~created
        THEN /\ confErr' = "CreateFile"
             /\ UNCHANGED snConf
        ELSE IF ~rendered
        THEN /\ confErr' = "GetServiceConfig"
             /\ snConf' = SnFile("empty")
        ELSE IF ~written
        THEN /\ confErr' = "WriteFile"
             /\ snConf' = SnFile("empty")
        ELSE /\ confErr' = confErr
             /\ snConf' = NewSuperNodeConfig
    /\ confPc' = "done"
    /\ UNCHANGED masternodeConf
    /\ UNCHANGED notConf

\* createOrUpdateSuperNodeConfig, existing file: the node section's pastel_id and
\* pass_phrase are replaced and the file is written back. A file without a node
\* section makes the type assertion of line 1195 panic; a failed WriteFile returns
\* the nil err of the calls before it and leaves the file as it was or truncated.
updateSuperNodeConfig ==
    /\ confPc = "createOrUpdateSuperNodeConfig"
    /\ snConf.state # "absent"
    /\ \E statOk \in BOOLEAN, read \in BOOLEAN, written \in BOOLEAN :
        IF ~statOk
        THEN confErr' = "Stat" /\ UNCHANGED snConf
        ELSE IF ~read
        THEN confErr' = "ReadFile" /\ UNCHANGED snConf
        ELSE IF snConf.state = "garbage"
        THEN confErr' = "Unmarshal" /\ UNCHANGED snConf
        ELSE IF snConf.state = "empty"
        THEN confErr' = "panic" /\ UNCHANGED snConf
        ELSE IF ~written
        THEN confErr' = confErr /\ snConf' \in {snConf, SnFile("empty")}
        ELSE confErr' = confErr /\ snConf' = UpdatedSuperNodeConfig
    /\ confPc' = "done"
    /\ UNCHANGED masternodeConf
    /\ UNCHANGED notConf

NextConf ==
    \/ createOrUpdateMasternodeConf
    \/ createSuperNodeConfig
    \/ updateSuperNodeConfig

SpecConf == InitConf /\ [][NextConf]_vars

-----------------------------------------------------------------------------
(* runStartMasternode (cmd/start.go)                                         *)

\* what runStartMasternode never touches
notMn == <<runVars, resolverVars, confVars, smVars, toolVars>>

\* addresses a flag, a masternode.conf entry or the discovery can hold
IPs == { "10.0.0.5", "10.0.0.6", "10.0.0.7" }

InitMn ==
    /\ RunIdle
    /\ ResolverIdle
    /\ ConfIdle
    /\ SmIdle
    /\ ToolsIdle
    /\ flagNodeExtIP \in IPs \cup {""}
    /\ confExtIP \in IPs \cup {""}
    /\ mnPc = "ParsePastelConf"
    /\ mnErr = ""
    /\ mnLaunched = NotLaunched

\* if err != nil { return err }
MnFail(reason) ==
    /\ mnPc' = "done"
    /\ mnErr' = reason

startMnParsePastelConf ==
    /\ mnPc = "ParsePastelConf"
    /\ \E ok \in BOOLEAN :
        IF ok THEN mnPc' = "getMasternodeConfData" /\ mnErr' = mnErr
              ELSE MnFail("ParsePastelConf")
    /\ UNCHANGED <<flagNodeExtIP, confExtIP, mnLaunched>>
    /\ UNCHANGED notMn

\* privKey, extIP, _, err := getMasternodeConfData(ctx, config, flagMasterNodeName)
startMnGetConfData ==
    /\ mnPc = "getMasternodeConfData"
    /\ \E ok \in BOOLEAN :
        IF ok THEN mnPc' = "GetExternalIPAddress" /\ mnErr' = mnErr
              ELSE MnFail("getMasternodeConfData")
    /\ UNCHANGED <<flagNodeExtIP, confExtIP, mnLaunched>>
    /\ UNCHANGED notMn

\* if len(flagNodeExtIP) == 0 { flagNodeExtIP = <the WAN address found> }
startMnGetExternalIP ==
    /\ mnPc = "GetExternalIPAddress"
    /\ IF flagNodeExtIP = ""
       THEN \E ok \in BOOLEAN, externalIP \in IPs :
            IF ok THEN /\ flagNodeExtIP' = externalIP
                       /\ mnPc' = "checkIP" /\ mnErr' = mnErr
                  ELSE /\ MnFail("GetExternalIPAddress")
                       /\ UNCHANGED flagNodeExtIP
       ELSE /\ mnPc' = "checkIP" /\ mnErr' = mnErr
            /\ UNCHANGED flagNodeExtIP
    /\ UNCHANGED <<confExtIP, mnLaunched>>
    /\ UNCHANGED notMn

\* (mutant) the addresses are not compared
MismatchNever(extIP, nodeExtIP) == FALSE

\* if extIP != flagNodeExtIP
Mismatch(extIP, nodeExtIP) == extIP # nodeExtIP

startMnCheckIP ==
    /\ mnPc = "checkIP"
    /\ IF Mismatch(confExtIP, flagNodeExtIP)
       THEN MnFail("mismatch")
       ELSE mnPc' = "runPastelNode" /\ mnErr' = mnErr
    /\ UNCHANGED <<flagNodeExtIP, confExtIP, mnLaunched>>
    /\ UNCHANGED notMn

\* runPastelNode(ctx, config, true, config.ReIndex, flagNodeExtIP, privKey)
startMnRunPastelNode ==
    /\ mnPc = "runPastelNode"
    /\ mnLaunched' = [called |-> TRUE, extIP |-> flagNodeExtIP, mnPrivKey |-> "privKey"]
    /\ \E ok \in BOOLEAN :
        IF ok THEN mnPc' = "done" /\ mnErr' = mnErr
              ELSE MnFail("runPastelNode")
    /\ UNCHANGED <<flagNodeExtIP, confExtIP>>
    /\ UNCHANGED notMn

NextMn ==
    \/ startMnParsePastelConf
    \/ startMnGetConfData
    \/ startMnGetExternalIP
    \/ startMnCheckIP
    \/ startMnRunPastelNode

SpecMn == InitMn /\ [][NextMn]_vars

-----------------------------------------------------------------------------
(* LinuxSystemdManager (servicemanager): RegisterService, StartService and   *)
(* StopService for one tool, with systemd behind runSystemdCmd               *)

\* what the service manager never touches
notSm == <<runVars, resolverVars, confVars, mnVars, toolVars>>

\* constants.ToolType: the tools RegisterService has a case for, and another one
Tools ==
    { "dd-img-server", "pasteld", "rq-service", "dd-service", "supernode",
      "walletnode", "pastelup" }

\* The cases of RegisterService that look for the tool's executable.
NeedsExecutable(tool) ==
    tool \in { "pasteld", "rq-service", "dd-service", "supernode", "walletnode" }

\* default: return nil
HasUnit(tool) == tool # "pastelup"

\* The unit definition rendered for the tool: ExecCmd and WorkDir depend on the
\* tool and, for pasteld, on the external IP found.
SystemdService(tool, extIP) == [tool |-> tool, extIP |-> extIP]

\* What "systemctl status" prints, as words; nothing when the query itself failed.
StatusOutputs ==
    IF running
    THEN { << "Active:", "active", "(running)" >>, << >> }
    ELSE { << "Active:", "inactive", "(dead)" >>, << "Active:", "failed" >>, << >> }

\* (mutant) the status output is never taken as running
IsRunningNever(res) == FALSE

\* strings.Contains(res, "(running)")
IsRunning(res) == \E k \in 1..Len(res) : res[k] = "(running)"

\* (mutant) every tool counts as registered
IsRegisteredAlways(statOk) == TRUE

\* IsRegistered: os.Stat of the unit file under homeDir/SystemdUserDir; an error
\* other than ErrNotExist also yields false.
IsRegistered(statOk) == registered /\ statOk

\* A call's record.
Call(op, started, e, verbs, wrote, statusOut) ==
    [op |-> op, started |-> started, err |-> e, verbs |-> verbs, wrote |-> wrote,
     statusOut |-> statusOut, wasRunning |-> running]

InitSm ==
    /\ RunIdle
    /\ ResolverIdle
    /\ ConfIdle
    /\ MnIdle
    /\ ToolsIdle
    /\ app \in Tools
    /\ exePresent \in BOOLEAN
    /\ registered \in BOOLEAN
    /\ unit = NoUnit
    /\ enabled = FALSE
    /\ running \in BOOLEAN
    /\ lastCall = NoCall
    /\ prevCall = NoCall

\* StartService, as its callers see it.
StartServiceCall ==
    /\ prevCall' = lastCall
    /\ \E statOk \in BOOLEAN, res \in StatusOutputs, ok \in BOOLEAN :
        IF ~IsRegistered(statOk)
        THEN /\ lastCall' = Call("StartService", FALSE, "", {}, FALSE, << >>)
             /\ UNCHANGED running
        ELSE IF IsRunning(res)
        THEN /\ lastCall' = Call("StartService", TRUE, "", {"status"}, FALSE, res)
             /\ UNCHANGED running
        ELSE IF ok
        THEN /\ lastCall' = Call("StartService", TRUE, "", {"status", "start"}, FALSE, res)
             /\ running' = TRUE
        ELSE /\ lastCall' = Call("StartService", FALSE, "start", {"status", "start"},
                                 FALSE, res)
             /\ UNCHANGED running
    /\ UNCHANGED <<app, exePresent, registered, unit, enabled>>

StartService ==
    /\ StartServiceCall
    /\ UNCHANGED notSm

StopService ==
    /\ prevCall' = lastCall
    /\ \E disabled \in BOOLEAN, res \in StatusOutputs, ok \in BOOLEAN :
        IF ~disabled
        THEN /\ lastCall' = Call("StopService", FALSE, "disable", {"disable"}, FALSE, << >>)
             /\ UNCHANGED <<enabled, running>>
        ELSE /\ enabled' = FALSE
             /\ IF ~IsRunning(res)
                THEN /\ lastCall' = Call("StopService", FALSE, "", {"disable", "status"},
                                         FALSE, res)
                     /\ UNCHANGED running
                ELSE IF ok
                THEN /\ lastCall' = Call("StopService", FALSE, "",
                                         {"disable", "status", "stop"}, FALSE, res)
                     /\ running' = FALSE
                ELSE /\ lastCall' = Call("StopService", FALSE, "stop",
                                         {"disable", "status", "stop"}, FALSE, res)
                     /\ UNCHANGED running
    /\ UNCHANGED <<app, exePresent, registered, unit>>
    /\ UNCHANGED notSm

\* RegisterService: nothing when IsRegistered; else the unit definition is rendered
\* and written under constants.SystemdSystemDir (a failed write is only logged) and
\* EnableService is called, its error dropped. A missing executable returns the
\* nil err declared at line 121.
RegisterService ==
    /\ prevCall' = lastCall
    /\ \E statOk \in BOOLEAN :
        IF IsRegistered(statOk) \/ ~HasUnit(app) \/ (NeedsExecutable(app) /\ ~exePresent)
        THEN /\ lastCall' = Call("RegisterService", FALSE, "", {}, FALSE, << >>)
             /\ UNCHANGED <<unit, enabled>>
        ELSE \E extIP \in (IF app = "pasteld" THEN IPs \cup {""} ELSE {"none"}),
                rendered \in BOOLEAN :
             IF extIP = ""
             THEN /\ lastCall' = Call("RegisterService", FALSE, "GetExternalIPAddress",
                                      {}, FALSE, << >>)
                  /\ UNCHANGED <<unit, enabled>>
             ELSE IF ~rendered
             THEN /\ lastCall' = Call("RegisterService", FALSE, "GetServiceConfig", {},
                                      FALSE, << >>)
                  /\ UNCHANGED <<unit, enabled>>
             ELSE \E written \in BOOLEAN, enableOk \in BOOLEAN :
                  /\ unit' = IF written THEN SystemdService(app, extIP) ELSE unit
                  /\ enabled' = (enabled \/ enableOk)
                  /\ lastCall' = Call("RegisterService", FALSE, "", {"enable"}, written,
                                      << >>)
    /\ UNCHANGED <<app, exePresent, registered, running>>
    /\ UNCHANGED notSm

\* The service ends by itself.
ServiceExits ==
    /\ running
    /\ running' = FALSE
    /\ UNCHANGED <<app, exePresent, registered, unit, enabled, lastCall, prevCall>>
    /\ UNCHANGED notSm

NextSm ==
    \/ RegisterService
    \/ StartService
    \/ StopService
    \/ ServiceExits

SpecSm == InitSm /\ [][NextSm]_vars

-----------------------------------------------------------------------------
(* runPastelNode (cmd/start.go): the service manager first, then the checks, *)
(* the argument list, the detached launch and the wait for the daemon        *)

\* what runPastelNode never touches
notNode == <<runVars, resolverVars, confVars, mnVars, snStartVars, chInitVars,
            installVars, ctxVars, lateVars>>

\* config.WorkingDir
WorkingDir == "/home/user/.pastel"

\* masternode private keys a caller can pass
PrivKeys == { "", "92hK", "93aQ" }

\* if txIndexOne { append "--txindex=1" }
TxIndexArgs(txIndexOne) == IF txIndexOne THEN << "--txindex=1" >> ELSE << >>

\* if reindex { append "--reindex" }
ReindexArgs(reindex) == IF reindex THEN << "--reindex" >> ELSE << >>

\* (mutant) the masternode arguments are added whatever the key is
MasternodeArgsAlways(mnPrivKey) ==
    << "--masternode", "--masternodeprivkey=" \o mnPrivKey >>

\* if len(mnPrivKey) != 0 { append "--masternode", "--masternodeprivkey=<key>" }
MasternodeArgs(mnPrivKey) ==
    IF mnPrivKey # ""
    THEN << "--masternode", "--masternodeprivkey=" \o mnPrivKey >>
    ELSE << >>

\* The argument list of lines 696-715.
PasteldArgs(call) ==
    << "--datadir=" \o WorkingDir, "--externalip=" \o call.extIP >>
        \o TxIndexArgs(call.txIndexOne)
        \o ReindexArgs(call.reindex)
        \o MasternodeArgs(call.mnPrivKey)
        \o << "--daemon" >>

\* The arguments of the ExecCmd RegisterService renders into pasteld's unit
\* definition: execPath + " --datadir=" + WorkingDir + " --externalip=" + extIP.
PasteldExecCmd(extIP) ==
    << "--datadir=" \o WorkingDir, "--externalip=" \o extIP >>

InitNode ==
    /\ RunIdle
    /\ ResolverIdle
    /\ ConfIdle
    /\ MnIdle
    /\ SnStartIdle
    /\ ChInitIdle
    /\ InstallIdle
    /\ CtxIdle
    /\ LateIdle
    /\ app = "pasteld"
    /\ registered \in BOOLEAN
    /\ unit = NoUnit
    /\ enabled = FALSE
    /\ running \in BOOLEAN
    /\ lastCall = NoCall
    /\ prevCall = NoCall
    /\ nodeCall \in [txIndexOne : BOOLEAN, reindex : BOOLEAN, extIP : {"", "10.0.0.5"},
                     mnPrivKey : PrivKeys]
    /\ nodeFiles \in [pasteld : BOOLEAN, conf : BOOLEAN, zksnark : BOOLEAN]
    /\ exePresent = nodeFiles.pasteld
    /\ nodePc = "StartService"
    /\ nodeErr = ""
    /\ pasteldArgs = << >>
    /\ spawned = << >>

\* return err
NodeFail(reason) ==
    /\ nodePc' = "done"
    /\ nodeErr' = reason

\* servicemanager.New, and sm.StartService(ctx, constants.PastelD) when it gave a
\* manager: an error is returned, a started service ends the call with nil.
nodeStartService ==
    /\ nodePc = "StartService"
    /\ \E serviceEnabled \in BOOLEAN :
        IF ~serviceEnabled
        THEN /\ nodePc' = "checkPasteld"
             /\ UNCHANGED <<nodeErr, smVars>>
        ELSE /\ StartServiceCall
             /\ IF lastCall'.err # ""
                THEN NodeFail("StartService")
                ELSE IF lastCall'.started
                THEN /\ nodePc' = "done"
                     /\ UNCHANGED nodeErr
                ELSE /\ nodePc' = "checkPasteld"
                     /\ UNCHANGED nodeErr
    /\ UNCHANGED <<nodeCall, nodeFiles, pasteldArgs, spawned>>
    /\ UNCHANGED notNode

\* A check that returns its error when the file is not in place.
NodeCheck(step, present, next, reason) ==
    /\ nodePc = step
    /\ IF present
       THEN /\ nodePc' = next
            /\ UNCHANGED nodeErr
       ELSE NodeFail(reason)
    /\ UNCHANGED <<nodeCall, nodeFiles, pasteldArgs, spawned, smVars>>
    /\ UNCHANGED notNode

\* checkPastelFilePath(config.PastelExecDir, constants.PasteldName[os])
nodeCheckPasteld ==
    NodeCheck("checkPasteld", nodeFiles.pasteld, "checkConf", "Could not find pasteld")

\* checkPastelFilePath(config.WorkingDir, constants.PastelConfName)
nodeCheckConf ==
    NodeCheck("checkConf", nodeFiles.conf, "CheckZksnarkParams",
              "Could not find pastel.conf")

nodeCheckZksnarkParams ==
    NodeCheck("CheckZksnarkParams", nodeFiles.zksnark, "GetExternalIPAddress",
              "Wrong ZKSnark files")

\* if len(extIP) == 0 { extIP, err = utils.GetExternalIPAddress() }
nodeGetExternalIP ==
    /\ nodePc = "GetExternalIPAddress"
    /\ IF nodeCall.extIP # ""
       THEN /\ nodePc' = "args"
            /\ UNCHANGED <<nodeCall, nodeErr>>
       ELSE \E found \in IPs \cup {""} :
            IF found = ""
            THEN /\ NodeFail("Could not get external IP address")
                 /\ UNCHANGED nodeCall
            ELSE /\ nodeCall' = [nodeCall EXCEPT !.extIP = found]
                 /\ nodePc' = "args"
                 /\ UNCHANGED nodeErr
    /\ UNCHANGED <<nodeFiles, pasteldArgs, spawned, smVars>>
    /\ UNCHANGED notNode

nodeBuildArgs ==
    /\ nodePc = "args"
    /\ pasteldArgs' = PasteldArgs(nodeCall)
    /\ nodePc' = "RunCMD"
    /\ UNCHANGED <<nodeCall, nodeFiles, nodeErr, spawned, smVars>>
    /\ UNCHANGED notNode

\* go RunCMD(pastelDPath, pasteldArgs...)
nodeRunCMD ==
    /\ nodePc = "RunCMD"
    /\ spawned' = Append(spawned, pasteldArgs)
    /\ nodePc' = "WaitingForPastelDToStart"
    /\ UNCHANGED <<nodeCall, nodeFiles, nodeErr, pasteldArgs, smVars>>
    /\ UNCHANGED notNode

\* if !WaitingForPastelDToStart(ctx, config) { return "pasteld was not started" }
nodeWaitingForPastelDToStart ==
    /\ nodePc = "WaitingForPastelDToStart"
    /\ \E started \in BOOLEAN :
        IF started
        THEN /\ nodePc' = "done"
             /\ UNCHANGED nodeErr
        ELSE NodeFail("pasteld was not started")
    /\ UNCHANGED <<nodeCall, nodeFiles, pasteldArgs, spawned, smVars>>
    /\ UNCHANGED notNode

NextNode ==
    \/ nodeStartService
    \/ nodeCheckPasteld
    \/ nodeCheckConf
    \/ nodeCheckZksnarkParams
    \/ nodeGetExternalIP
    \/ nodeBuildArgs
    \/ nodeRunCMD
    \/ nodeWaitingForPastelDToStart

SpecNode == InitNode /\ [][NextNode]_vars

-----------------------------------------------------------------------------
(* Run, lines 223-246: the supernode config is copied to the hot node, its   *)
(* permissions are set, and supernode-service is started there               *)

\* what this part of Run never touches
notSnStart == <<runVars, resolverVars, confVars, mnVars, smVars, nodeVars, chInitVars,
               installVars, ctxVars, lateVars>>

\* working directories a configuration can name
WorkDirs == { "/home/alice/.pastel", "/home/bob/.pastel" }

\* os.PathSeparator of the machine pastelup runs on
Seps == { "/", "\\" }

\* Configurer.GetSuperNodeConfFile(workDir): the directory joined with the file
\* name by the local separator.
GetSuperNodeConfFile(workDir) ==
    [dir |-> workDir, sep |-> snCfg.sep, file |-> "supernode.yml"]

\* strings.ReplaceAll(path, "\\", "/")
ToSlash(path) == [path EXCEPT !.sep = "/"]

\* snConfigPath
SnConfigPath == GetSuperNodeConfFile(snCfg.WorkingDir)

\* remoteSnConfigPath
RemoteSnConfigPath == ToSlash(GetSuperNodeConfFile(snCfg.RemoteWorkingDir))

\* the names a file of the hot node can have in this model
RemoteFsPaths == [dir : WorkDirs, sep : Seps, file : {"supernode.yml"}]

\* The path in the "chmod 755 %s" command of line 234.
ChmodTarget == SnConfigPath

InitSnStart ==
    /\ RunIdle
    /\ ResolverIdle
    /\ ConfIdle
    /\ MnIdle
    /\ SmIdle
    /\ NodeIdle
    /\ ChInitIdle
    /\ InstallIdle
    /\ CtxIdle
    /\ LateIdle
    /\ snCfg \in [sep : Seps, WorkingDir : WorkDirs, RemoteWorkingDir : WorkDirs]
    /\ remoteMode \in [RemoteFsPaths -> {"absent", "644"}]
    /\ copied = {}
    /\ chmodded = {}
    /\ snPc = "Scp"
    /\ snErr = ""
    /\ snStarted = FALSE

\* return err
SnStartFail(reason) ==
    /\ snPc' = "done"
    /\ snErr' = reason

\* r.sshClient.Scp(snConfigPath, remoteSnConfigPath): the copy has the mode the
\* transfer gives it.
snScp ==
    /\ snPc = "Scp"
    /\ \E ok \in BOOLEAN :
        IF ok
        THEN \E mode \in {"644", "755"} :
             /\ remoteMode' = [remoteMode EXCEPT ![RemoteSnConfigPath] = mode]
             /\ copied' = copied \cup {RemoteSnConfigPath}
             /\ snPc' = "chmod"
             /\ UNCHANGED snErr
        ELSE /\ SnStartFail("Scp")
             /\ UNCHANGED <<remoteMode, copied>>
    /\ UNCHANGED <<snCfg, chmodded, snStarted>>
    /\ UNCHANGED notSnStart

\* r.sshClient.ShellCmd(ctx, "chmod 755 " + snConfigPath): chmod fails on a file
\* the hot node does not have.
snChmod ==
    /\ snPc = "chmod"
    /\ \E ok \in BOOLEAN :
        IF ok /\ remoteMode[ChmodTarget] # "absent"
        THEN /\ remoteMode' = [remoteMode EXCEPT ![ChmodTarget] = "755"]
             /\ chmodded' = chmodded \cup {ChmodTarget}
             /\ snPc' = "runServiceRemote"
             /\ UNCHANGED snErr
        ELSE /\ SnStartFail("chmod")
             /\ UNCHANGED <<remoteMode, chmodded>>
    /\ UNCHANGED <<snCfg, copied, snStarted>>
    /\ UNCHANGED notSnStart

\* r.runServiceRemote(ctx, "supernode-service")
snRunServiceRemote ==
    /\ snPc = "runServiceRemote"
    /\ \E ok \in BOOLEAN :
        IF ok
        THEN /\ snStarted' = TRUE
             /\ snPc' = "done"
             /\ UNCHANGED snErr
        ELSE /\ SnStartFail("supernode-service")
             /\ UNCHANGED snStarted
    /\ UNCHANGED <<snCfg, remoteMode, copied, chmodded>>
    /\ UNCHANGED notSnStart

NextSnStart ==
    \/ snScp
    \/ snChmod
    \/ snRunServiceRemote

SpecSnStart == InitSnStart /\ [][NextSnStart]_vars

-----------------------------------------------------------------------------
(* ColdHotRunner.Init with its inputs: handleArgs, handleConfigs (ParsePastelConf *)
(* and checkStartMasterNodeParams with coldHot = true), connectSSH, external IP  *)

\* what Init never touches in this view of it
notChInit == <<runVars, resolverVars, confVars, mnVars, smVars, nodeVars, snStartVars,
              installVars, ctxVars, lateVars>>

\* handleArgs: len(r.config.RemotePastelUtilityDir) == 0
HandleArgsError(in) ==
    IF ~in.RemotePastelUtilityDir THEN "cannot find remote pastel-utility dir" ELSE ""

\* (mutant) the SSH address is not asked for
CheckStartMasterNodeParamsNoSshIP(in) ==
    IF ~in.name THEN "required: --name"
    ELSE IF ~in.confNew /\ ~in.masternodeConf THEN "Could not find masternode.conf"
    ELSE ""

\* checkStartMasterNodeParams(ctx, config, true): the name, masternode.conf unless
\* it is to be created, the SSH address.
CheckStartMasterNodeParams(in) ==
    IF ~in.name THEN "required: --name"
    ELSE IF ~in.confNew /\ ~in.masternodeConf THEN "Could not find masternode.conf"
    ELSE IF ~in.RemoteIP THEN "required if --coldhot is specified, --ssh-ip"
    ELSE ""

\* handleConfigs: ParsePastelConf, then checkStartMasterNodeParams
HandleConfigsError(in) ==
    IF ~in.pastelConf THEN "parse pastel.conf" ELSE CheckStartMasterNodeParams(in)

InitChInit ==
    /\ RunIdle
    /\ ResolverIdle
    /\ ConfIdle
    /\ MnIdle
    /\ SmIdle
    /\ NodeIdle
    /\ SnStartIdle
    /\ InstallIdle
    /\ CtxIdle
    /\ LateIdle
    /\ chIn \in [RemotePastelUtilityDir : BOOLEAN, pastelConf : BOOLEAN, name : BOOLEAN,
                 confNew : BOOLEAN, masternodeConf : BOOLEAN, RemoteIP : BOOLEAN,
                 extIP : BOOLEAN]
    /\ chPc = "handleArgs"
    /\ chErr = ""
    /\ sshAttempts = 0
    /\ chCmds = {}

\* A step of Init that returns the error it got, or goes on.
ChStep(step, e, next) ==
    /\ chPc = step
    /\ IF e # ""
       THEN chPc' = "done" /\ chErr' = e
       ELSE chPc' = next /\ chErr' = chErr

chHandleArgs ==
    /\ ChStep("handleArgs", HandleArgsError(chIn), "handleConfigs")
    /\ UNCHANGED <<chIn, sshAttempts, chCmds>>
    /\ UNCHANGED notChInit

chHandleConfigs ==
    /\ ChStep("handleConfigs", HandleConfigsError(chIn), "connectSSH")
    /\ UNCHANGED <<chIn, sshAttempts, chCmds>>
    /\ UNCHANGED notChInit

\* client, err := connectSSH(...): one call, its error returned
chConnectSSH ==
    /\ \E ok \in BOOLEAN :
        ChStep("connectSSH", IF ok THEN "" ELSE "ssh connection failure",
               IF chIn.extIP THEN "return" ELSE "getExtIP")
    /\ sshAttempts' = sshAttempts + 1
    /\ UNCHANGED <<chIn, chCmds>>
    /\ UNCHANGED notChInit

\* if flagNodeExtIP == "" { client.Cmd("curl http://ipinfo.io/ip").Output() }
chGetExtIP ==
    /\ \E ok \in BOOLEAN :
        ChStep("getExtIP", IF ok THEN "" ELSE "failure in getting ext ip of remote",
               "return")
    /\ chCmds' = chCmds \cup {"curl"}
    /\ chIn' = [chIn EXCEPT !.extIP = (chErr' = "")]
    /\ UNCHANGED sshAttempts
    /\ UNCHANGED notChInit

\* return nil
chReturn ==
    /\ ChStep("return", "", "done")
    /\ UNCHANGED <<chIn, sshAttempts, chCmds>>
    /\ UNCHANGED notChInit

NextChInit ==
    \/ chHandleArgs
    \/ chHandleConfigs
    \/ chConnectSSH
    \/ chGetExtIP
    \/ chReturn

SpecChInit == InitChInit /\ [][NextChInit]_vars

-----------------------------------------------------------------------------
(* install runs on one machine (cmd/install.go as kept in unnamed/part_001):  *)
(* runServicesInstall up to checkInstallDir, then                             *)
(* setupBasePasteWorkingEnvironment and updatePastelConfigFile                *)

\* what an install run never touches
notInstall == <<runVars, resolverVars, confVars, mnVars, smVars, nodeVars, snStartVars,
               chInitVars, ctxVars, lateVars>>

\* install runs followed on the machine
MaxInstallRuns == 2

\* constants.NetworkModes an install run is given here
InstallNetworks == { "mainnet", "testnet" }

\* GetSNPortList(config)[constants.NodeRPCPort]
NodeRPCPort(network) == IF network = "testnet" THEN 19932 ELSE 9932

\* ParsePastelConf: the RPC fields of the Config are read from pastel.conf.
ParsePastelConf(cfg, file) ==
    [cfg EXCEPT !.RPCUser = file.rpcuser, !.RPCPwd = file.rpcpassword,
                !.RPCPort = file.rpcport]

\* if config.RPCPort == 0 || config.RegenRPC { ... }, and the same for RPCUser
\* and RPCPwd: the n-th random string is written as the number n.
GenerateRPC(cfg, gen) ==
    [cfg EXCEPT
        !.RPCPort = IF cfg.RPCPort = 0 \/ cfg.RegenRPC
                    THEN NodeRPCPort(cfg.Network) ELSE cfg.RPCPort,
        !.RPCUser = IF cfg.RPCUser = 0 \/ cfg.RegenRPC THEN gen + 1 ELSE cfg.RPCUser,
        !.RPCPwd  = IF cfg.RPCPwd = 0 \/ cfg.RegenRPC THEN gen + 2 ELSE cfg.RPCPwd]

\* The rpcuser, rpcpassword and rpcport lines updatePastelConfigFile writes.
PastelConfOf(cfg) ==
    [rpcuser |-> cfg.RPCUser, rpcpassword |-> cfg.RPCPwd, rpcport |-> cfg.RPCPort]

InitInstall ==
    /\ RunIdle
    /\ ResolverIdle
    /\ ConfIdle
    /\ MnIdle
    /\ SmIdle
    /\ NodeIdle
    /\ SnStartIdle
    /\ ChInitIdle
    /\ CtxIdle
    /\ LateIdle
    /\ pastelConf = NoConf
    /\ instDirs = [PastelExecDir |-> FALSE, WorkingDir |-> FALSE]
    /\ instCfg = NoInstCfg
    /\ instPc = "done"
    /\ instErr = ""
    /\ instRuns = 0
    /\ instGen = 0

\* return err
InstallFail(reason) ==
    /\ instPc' = "done"
    /\ instErr' = reason

\* A new process: "pastelup install node" with its flags.
instRun ==
    /\ instPc = "done"
    /\ instRuns < MaxInstallRuns
    /\ instRuns' = instRuns + 1
    /\ \E force \in BOOLEAN, regen \in BOOLEAN, network \in InstallNetworks :
        instCfg' = [NoInstCfg EXCEPT !.Force = force, !.RegenRPC = regen,
                                     !.Network = network]
    /\ instPc' = "CheckProcessRunning"
    /\ instErr' = ""
    /\ UNCHANGED <<pastelConf, instDirs, instGen>>
    /\ UNCHANGED notInstall

\* runServicesInstall: a running pasteld is stopped when the user agrees; when the
\* service manager did not stop it, pastel.conf is parsed and pastel-cli stops it.
instCheckProcessRunning ==
    /\ instPc = "CheckProcessRunning"
    /\ \E isRunning \in BOOLEAN, yes \in BOOLEAN, still \in BOOLEAN, parsed \in BOOLEAN :
        IF ~isRunning
        THEN /\ instPc' = "checkInstallDir"
             /\ UNCHANGED <<instCfg, instErr>>
        ELSE IF ~yes
        THEN /\ InstallFail("user terminated installation")
             /\ UNCHANGED instCfg
        ELSE IF ~still
        THEN /\ instPc' = "checkInstallDir"
             /\ UNCHANGED <<instCfg, instErr>>
        ELSE IF ~parsed \/ pastelConf = NoConf
        THEN /\ InstallFail("ParsePastelConf")
             /\ UNCHANGED instCfg
        ELSE /\ instCfg' = ParsePastelConf(instCfg, pastelConf)
             /\ instPc' = "checkInstallDir"
             /\ UNCHANGED instErr
    /\ UNCHANGED <<pastelConf, instDirs, instRuns, instGen>>
    /\ UNCHANGED notInstall

\* checkInstallDir: an existing directory is overwritten after --force or a yes,
\* and config.Force is set; a missing one is created.
instCheckInstallDir ==
    /\ instPc = "checkInstallDir"
    /\ IF instDirs.PastelExecDir
       THEN \E yes \in BOOLEAN :
            IF ~instCfg.Force /\ ~yes
            THEN /\ InstallFail("user terminated installation")
                 /\ UNCHANGED <<instCfg, instDirs>>
            ELSE /\ instCfg' = [instCfg EXCEPT !.Force = TRUE]
                 /\ instPc' = "CreateFolder"
                 /\ UNCHANGED <<instErr, instDirs>>
       ELSE \E ok \in BOOLEAN :
            IF ok
            THEN /\ instDirs' = [instDirs EXCEPT !.PastelExecDir = TRUE]
                 /\ instPc' = "CreateFolder"
                 /\ UNCHANGED <<instCfg, instErr>>
            ELSE /\ InstallFail("failed to create install directory")
                 /\ UNCHANGED <<instCfg, instDirs>>
    /\ UNCHANGED <<pastelConf, instRuns, instGen>>
    /\ UNCHANGED notInstall

\* utils.CreateFolder(ctx, config.WorkingDir, config.Force): an existing folder is
\* an error unless Force.
instCreateFolder ==
    /\ instPc = "CreateFolder"
    /\ \E ok \in BOOLEAN :
        IF ok /\ (instCfg.Force \/ ~instDirs.WorkingDir)
        THEN /\ instDirs' = [instDirs EXCEPT !.WorkingDir = TRUE]
             /\ instPc' = "GenerateRPC"
             /\ UNCHANGED instErr
        ELSE /\ InstallFail("Failed to create folder")
             /\ UNCHANGED instDirs
    /\ UNCHANGED <<pastelConf, instCfg, instRuns, instGen>>
    /\ UNCHANGED notInstall

\* setupBasePasteWorkingEnvironment, lines 1550-1559
instGenerateRPC ==
    /\ instPc = "GenerateRPC"
    /\ instCfg' = GenerateRPC(instCfg, instGen)
    /\ instGen' = instGen + 2
    /\ instPc' = "CreateFile"
    /\ UNCHANGED <<pastelConf, instDirs, instErr, instRuns>>
    /\ UNCHANGED notInstall

\* utils.CreateFile(ctx, pastelConfigPath, config.Force), then
\* updatePastelConfigFile: ioutil.WriteFile of the whole file.
instUpdatePastelConfigFile ==
    /\ instPc = "CreateFile"
    /\ \E created \in BOOLEAN, written \in BOOLEAN :
        IF ~created \/ (pastelConf # NoConf /\ ~instCfg.Force)
        THEN /\ InstallFail("failed to create pastel.conf")
             /\ UNCHANGED pastelConf
        ELSE IF ~written
        THEN /\ InstallFail("failed to update pastel.conf")
             /\ UNCHANGED pastelConf
        ELSE /\ pastelConf' = PastelConfOf(instCfg)
             /\ instPc' = "done"
             /\ UNCHANGED instErr
    /\ UNCHANGED <<instDirs, instCfg, instRuns, instGen>>
    /\ UNCHANGED notInstall

NextInstall ==
    \/ instRun
    \/ instCheckProcessRunning
    \/ instCheckInstallDir
    \/ instCreateFolder
    \/ instGenerateRPC
    \/ instUpdatePastelConfigFile

SpecInstall == InitInstall /\ [][NextInstall]_vars

-----------------------------------------------------------------------------
(* The interrupt handler of the start command (setupStartSubCommand) beside  *)
(* ColdHotRunner.Init and Run: the handler cancels the context the runner    *)
(* was given, then ends the process                                          *)

\* what the handler never touches
notCtx == <<runVars, resolverVars, confVars, mnVars, smVars, nodeVars, snStartVars,
           chInitVars, installVars, lateVars>>

\* The start of a run with --create and --activate and without --ip, which goes
\* through every step of Init and Run.
InitCancel ==
    /\ Init
    /\ flags = [create |-> TRUE, update |-> FALSE, activate |-> TRUE, extIP |-> FALSE]

\* <-sigCh, a yes to "do you want to cancel this process?", cancel()
ctxCancel ==
    /\ pc \in Steps
    /\ ~cancelled
    /\ cancelled' = TRUE
    /\ UNCHANGED exited
    /\ UNCHANGED notCtx

\* os.Exit(0)
osExit ==
    /\ cancelled
    /\ ~exited
    /\ exited' = TRUE
    /\ UNCHANGED cancelled
    /\ UNCHANGED notCtx

\* The runner's goroutines run until the process has ended.
NextCancel ==
    \/ ~exited /\ Next
    \/ ctxCancel
    \/ osExit

SpecCancel == InitCancel /\ [][NextCancel]_vars

-----------------------------------------------------------------------------
(* The operations that parse what an RPC printed: checkMasterNodeSyncRemote, *)
(* runStartAliasMasternode, checkPastelID and getMasternodeOutputs, each on  *)
(* one output of its RPC                                                     *)

\* what these operations never touch
notParse == <<runVars, resolverVars, confVars, mnVars, smVars, nodeVars, snStartVars,
              chInitVars, installVars, ctxVars, keyVars, remoteStartVars, chkVars>>

\* Every other part of the program is at rest.
EarlyIdle ==
    /\ RunIdle /\ ResolverIdle /\ ConfIdle /\ MnIdle /\ SmIdle
    /\ NodeIdle /\ SnStartIdle /\ ChInitIdle /\ InstallIdle /\ CtxIdle

\* the longest output, in tokens
MaxTextLen == 5

\* JSON tokens: braces, colon, comma, a string literal and null
Tokens == { "{", "}", ":", ",", "s", "n" }

Texts == UNION { [1..n -> Tokens] : n \in 0..MaxTextLen }

RECURSIVE ParseValue(_, _), ParseMembers(_, _)

\* The position after the JSON value that starts at position i of text, 0 when
\* there is none (encoding/json's checkValid).
ParseValue(text, i) ==
    IF i > Len(text) THEN 0
    ELSE IF text[i] \in {"s", "n"} THEN i + 1
    ELSE IF text[i] = "{"
    THEN IF i + 1 <= Len(text) /\ text[i + 1] = "}"
         THEN i + 2
         ELSE ParseMembers(text, i + 1)
    ELSE 0

\* The position after the members and closing brace that start at position i.
ParseMembers(text, i) ==
    IF i + 1 <= Len(text) /\ text[i] = "s" /\ text[i + 1] = ":"
    THEN LET j == ParseValue(text, i + 2) IN
         IF j = 0 \/ j > Len(text) THEN 0
         ELSE IF text[j] = "}" THEN j + 1
         ELSE IF text[j] = "," THEN ParseMembers(text, j + 1)
         ELSE 0
    ELSE 0

\* The text is one JSON value and nothing else.
IsJSON(text) == ParseValue(text, 1) = Len(text) + 1

\* json.Unmarshal into a struct or a map[string]interface{} gives an error unless
\* the text is a JSON object or null.
UnmarshalError(text) ==
    ~IsJSON(text) \/ text[1] = "s"

\* json.Unmarshal into a map[string]string also rejects an object inside the
\* object.
UnmarshalStringMapError(text) ==
    \/ UnmarshalError(text)
    \/ \E i \in 2..Len(text) : text[i] = "{"

\* One pass of checkMasterNodeSyncRemote with retryCount = 1: the error it
\* returns on this output, "" when the loop goes on to read mnstatus.
SyncStatusError(ok, text) ==
    IF ~ok THEN "status"
    ELSE IF UnmarshalError(text) THEN "unmarshal"
    ELSE ""

\* runStartAliasMasternode on this output; the tokens carry no "failed" result.
AliasOutputOf(ok, text) ==
    [rpcOk |-> ok,
     json |-> IF UnmarshalError(text) THEN "garbage" ELSE "object",
     result |-> ""]

\* checkPastelID with no pastelid and a passphrase.
CheckPastelIDError(ok, text) ==
    IF ~ok THEN "pastelid newkey"
    ELSE IF UnmarshalError(text) THEN "Unmarshal"
    ELSE ""

\* (mutant) the outputs are never parsed
GetMasternodeOutputsErrorUnparsed(ok, text) ==
    IF ~ok THEN "masternode outputs" ELSE ""

\* getMasternodeOutputs: an empty output is not parsed.
GetMasternodeOutputsError(ok, text) ==
    IF ~ok THEN "masternode outputs"
    ELSE IF Len(text) # 0 /\ UnmarshalStringMapError(text) THEN "Unmarshal"
    ELSE ""

InitParse ==
    /\ EarlyIdle
    /\ KeyIdle
    /\ RemoteStartIdle
    /\ ChkIdle
    /\ cliOk \in BOOLEAN
    /\ cliText \in Texts
    /\ parsePc = "call"
    /\ parseErr = ""

\* The operation ran on the output and returned e.
Parsed(op, e) ==
    /\ parsePc = "call"
    /\ parsePc' = op
    /\ parseErr' = e
    /\ UNCHANGED <<cliOk, cliText>>
    /\ UNCHANGED notParse

parseCheckMasterNodeSyncRemote ==
    Parsed("checkMasterNodeSyncRemote", SyncStatusError(cliOk, cliText))

parseRunStartAliasMasternode ==
    Parsed("runStartAliasMasternode", StartAliasError(AliasOutputOf(cliOk, cliText)))

parseCheckPastelID ==
    Parsed("checkPastelID", CheckPastelIDError(cliOk, cliText))

parseGetMasternodeOutputs ==
    Parsed("getMasternodeOutputs", GetMasternodeOutputsError(cliOk, cliText))

NextParse ==
    \/ parseCheckMasterNodeSyncRemote
    \/ parseRunStartAliasMasternode
    \/ parseCheckPastelID
    \/ parseGetMasternodeOutputs

SpecParse == InitParse /\ [][NextParse]_vars

-----------------------------------------------------------------------------
(* The masternode private key in ColdHotRunner.Run: checkMasternodePrivKey   *)
(* on the hot node, the masternode.conf entry, getMasternodeConfData and the *)
(* command line of runRemoteNodeAsMasterNode                                 *)

\* what the key's path never touches
notKey == <<runVars, resolverVars, confVars, mnVars, smVars, nodeVars, snStartVars,
            chInitVars, installVars, ctxVars, parseVars, remoteStartVars, chkVars>>

\* keys, as sequences of characters
Keys == { <<"a">>, <<"b">>, <<"a", "b">> }

\* the masternode names of masternode.conf
NodeNames == { "mn1", "mn2" }

\* What "masternode genkey" prints: the key and a newline.
GenkeyOutputs == { key \o <<"\n">> : key \in Keys }

\* strings.TrimSuffix(s, suffix)
TrimSuffix(s, suffix) ==
    IF /\ Len(s) >= Len(suffix)
       /\ SubSeq(s, Len(s) - Len(suffix) + 1, Len(s)) = suffix
    THEN SubSeq(s, 1, Len(s) - Len(suffix))
    ELSE s

\* (mutant) the launch keeps the key the run already had when it had one
KeyForLaunchKeepFlag(flagKey, privkey) ==
    IF flagKey # NoKey THEN flagKey ELSE privkey

\* flagMasterNodePrivateKey = privkey
KeyForLaunch(flagKey, privkey) == privkey

\* fmt.Sprintf of the masternode launch; the executable, --externalip, --data-dir
\* and the testnet option are left out.
MasternodeCmdLine(key) ==
    << "--masternode", "--txindex=1", "--reindex", "--masternodeprivkey=" >> \o key
        \o << "--daemon" >>

InitKey ==
    /\ EarlyIdle
    /\ ParseIdle
    /\ RemoteStartIdle
    /\ ChkIdle
    /\ keyIn \in [create : BOOLEAN, update : BOOLEAN, name : NodeNames]
    /\ mnPrivateKey \in Keys \cup {NoKey}
    /\ mnRegistry \in [NodeNames -> Keys \cup {NoKey}]
    /\ genkeyOut = << >>
    /\ keyPc = "checkMasternodePrivKey"
    /\ keyErr = ""
    /\ remoteCmdLine = << >>

KeyFail(reason) ==
    /\ keyPc' = "done"
    /\ keyErr' = reason

\* handleCreateUpdateStartColdHot's checkMasternodePrivKey with the SSH client,
\* run when --create or --update was given.
keyCheckMasternodePrivKey ==
    /\ keyPc = "checkMasternodePrivKey"
    /\ IF ~(keyIn.create \/ keyIn.update)
       THEN /\ keyPc' = "getMasternodeConfData"
            /\ UNCHANGED <<mnPrivateKey, genkeyOut, keyErr>>
       ELSE IF mnPrivateKey # NoKey
       THEN /\ keyPc' = "createOrUpdateMasternodeConf"
            /\ UNCHANGED <<mnPrivateKey, genkeyOut, keyErr>>
       ELSE \E ok \in BOOLEAN, out \in GenkeyOutputs :
            IF ok
            THEN /\ genkeyOut' = out
                 /\ mnPrivateKey' = TrimSuffix(out, <<"\n">>)
                 /\ keyPc' = "createOrUpdateMasternodeConf"
                 /\ UNCHANGED keyErr
            ELSE /\ KeyFail("checkMasternodePrivKey")
                 /\ UNCHANGED <<mnPrivateKey, genkeyOut>>
    /\ UNCHANGED <<keyIn, mnRegistry, remoteCmdLine>>
    /\ UNCHANGED notKey

\* createOrUpdateMasternodeConf: the entry of flagMasterNodeName gets the resolved
\* key, or an error is returned.
keyCreateOrUpdateMasternodeConf ==
    /\ keyPc = "createOrUpdateMasternodeConf"
    /\ \E ok \in BOOLEAN :
        IF ok
        THEN /\ mnRegistry' = [mnRegistry EXCEPT ![keyIn.name] = mnPrivateKey]
             /\ keyPc' = "getMasternodeConfData"
             /\ UNCHANGED keyErr
        ELSE /\ KeyFail("createOrUpdateMasternodeConf")
             /\ UNCHANGED mnRegistry
    /\ UNCHANGED <<keyIn, mnPrivateKey, genkeyOut, remoteCmdLine>>
    /\ UNCHANGED notKey

\* privkey, _, _, err := getMasternodeConfData(ctx, r.config, flagMasterNodeName)
\* and flagMasterNodePrivateKey = privkey
keyGetMasternodeConfData ==
    /\ keyPc = "getMasternodeConfData"
    /\ IF mnRegistry[keyIn.name] = NoKey
       THEN /\ KeyFail("getMasternodeConfData")
            /\ UNCHANGED mnPrivateKey
       ELSE /\ mnPrivateKey' = KeyForLaunch(mnPrivateKey, mnRegistry[keyIn.name])
            /\ keyPc' = "runRemoteNodeAsMasterNode"
            /\ UNCHANGED keyErr
    /\ UNCHANGED <<keyIn, mnRegistry, genkeyOut, remoteCmdLine>>
    /\ UNCHANGED notKey

\* runRemoteNodeAsMasterNode's goroutine builds and sends the command line.
keyRunRemoteNodeAsMasterNode ==
    /\ keyPc = "runRemoteNodeAsMasterNode"
    /\ remoteCmdLine' = MasternodeCmdLine(mnPrivateKey)
    /\ keyPc' = "done"
    /\ UNCHANGED <<keyIn, mnPrivateKey, mnRegistry, genkeyOut, keyErr>>
    /\ UNCHANGED notKey

NextKey ==
    \/ keyCheckMasternodePrivKey
    \/ keyCreateOrUpdateMasternodeConf
    \/ keyGetMasternodeConfData
    \/ keyRunRemoteNodeAsMasterNode

SpecKey == InitKey /\ [][NextKey]_vars

-----------------------------------------------------------------------------
(* runRemoteStart: the start command for the remote host(s) of the inventory *)

\* what runRemoteStart never touches
notRemoteStart == <<runVars, resolverVars, confVars, mnVars, smVars, nodeVars,
                    snStartVars, chInitVars, installVars, ctxVars, parseVars, keyVars,
                    chkVars>>

\* the tools of the remote start sub-commands
RemoteTools == { "node", "supernode", "walletnode", "rq-service", "dd-service",
                 "walletnode-service", "supernode-service" }

\* constants.RemotePastelupPath; the constants package gives it a fixed path, which
\* the command line only carries along.
RemotePastelupPath == "/tmp/pastelup"

\* fmt.Sprintf("%s <option>", startOptions) when the condition holds
WithOption(options, cond, option) ==
    IF cond THEN options \o " " \o option ELSE options

\* The options runRemoteStart builds from the tool, the flags and the config.
StartOptions(in) ==
    LET o1 == WithOption(in.tool, in.name # "", "--name=" \o in.name)
        o2 == WithOption(o1, in.activate, "--activate")
        o3 == WithOption(o2, in.extIP # "", "--ip=" \o in.extIP)
        o4 == WithOption(o3, in.ReIndex, "--reindex")
        o5 == WithOption(o4, in.Legacy, "--legacy")
        o6 == WithOption(o5, in.devMode, "--development-mode")
        o7 == WithOption(o6, in.PastelExecDir # "", "--dir=" \o in.PastelExecDir)
    IN WithOption(o7, in.WorkingDir # "", "--work-dir=" \o in.WorkingDir)

\* The value runRemoteStart returns after executeRemoteCommandsWithInventory
\* returned: the error is logged and nil is returned either way.
RemoteStartResult(execFailed) == ""

InitRemoteStart ==
    /\ EarlyIdle
    /\ ParseIdle
    /\ KeyIdle
    /\ ChkIdle
    /\ rsIn \in [tool : RemoteTools, name : {"", "mn1"}, activate : BOOLEAN,
                 extIP : {"", "10.0.0.5"}, ReIndex : BOOLEAN, Legacy : BOOLEAN,
                 devMode : BOOLEAN, PastelExecDir : {"", "/opt/pastel"},
                 WorkingDir : {"", "/home/user/.pastel"}]
    /\ startOptions = ""
    /\ rsSent = << >>
    /\ rsFailed = FALSE
    /\ rsPc = "options"
    /\ rsErr = ""

\* Lines 418-444: the options.
rsBuildOptions ==
    /\ rsPc = "options"
    /\ startOptions' = StartOptions(rsIn)
    /\ rsPc' = "execute"
    /\ UNCHANGED <<rsIn, rsSent, rsFailed, rsErr>>
    /\ UNCHANGED notRemoteStart

\* Lines 446-449: the command is executed on the hosts of the inventory.
rsExecute ==
    /\ rsPc = "execute"
    /\ rsSent' = Append(rsSent, RemotePastelupPath \o " start " \o startOptions)
    /\ \E execFailed \in BOOLEAN : rsFailed' = execFailed
    /\ rsPc' = "return"
    /\ UNCHANGED <<rsIn, startOptions, rsErr>>
    /\ UNCHANGED notRemoteStart

\* Lines 451-452.
rsReturn ==
    /\ rsPc = "return"
    /\ rsErr' = RemoteStartResult(rsFailed)
    /\ rsPc' = "done"
    /\ UNCHANGED <<rsIn, startOptions, rsSent, rsFailed>>
    /\ UNCHANGED notRemoteStart

NextRemoteStart ==
    \/ rsBuildOptions
    \/ rsExecute
    \/ rsReturn

SpecRemoteStart == InitRemoteStart /\ [][NextRemoteStart]_vars

-----------------------------------------------------------------------------
(* CheckPastelDRunningRemote as each of its call sites uses it, in            *)
(* cmd/start_coldhot.go and in the other copy of that file (part_002)         *)

\* what a liveness check never touches
notChk == <<runVars, resolverVars, confVars, mnVars, smVars, nodeVars, snStartVars,
            chInitVars, installVars, ctxVars, parseVars, keyVars, remoteStartVars>>

\* The calls of CheckPastelDRunningRemote: the file, the line and the want passed.
CheckSites ==
    { [file |-> "cmd/start_coldhot.go", line |-> 261, want |-> TRUE],
      [file |-> "cmd/start_coldhot.go", line |-> 293, want |-> TRUE],
      [file |-> "cmd/start_coldhot.go", line |-> 378, want |-> TRUE],
      [file |-> "part_002", line |-> 219, want |-> TRUE],
      [file |-> "part_002", line |-> 251, want |-> TRUE],
      [file |-> "part_002", line |-> 270, want |-> FALSE],
      [file |-> "part_002", line |-> 359, want |-> TRUE],
      [file |-> "part_002", line |-> 373, want |-> FALSE] }

\* The value returned when the query failed and !want: false at
\* cmd/start_coldhot.go:353, true at part_002:334.
StoppedResultIn(file) == IF file = "part_002" THEN "true" ELSE StoppedResult

\* One pass of the loop for a query outcome: the value returned, or "none" when
\* the loop goes round again.
PassResult(site, cnt, ok) ==
    IF ok THEN "true"
    ELSE IF ~site.want THEN StoppedResultIn(site.file)
    ELSE IF GiveUp(cnt + 1) THEN "false"
    ELSE "none"

InitChk ==
    /\ EarlyIdle
    /\ ParseIdle
    /\ KeyIdle
    /\ RemoteStartIdle
    /\ chkSite \in CheckSites
    /\ chkFailCnt = 0
    /\ chkAnswered = FALSE
    /\ chkRet = "none"
    /\ chkPc = "getinfo"
    /\ chkErr = ""

\* One pass: the getinfo query, and on a failure with want the sleep and failCnt++.
chkGetinfo ==
    /\ chkPc = "getinfo"
    /\ \E ok \in BOOLEAN :
        /\ chkAnswered' = ok
        /\ chkRet' = PassResult(chkSite, chkFailCnt, ok)
        /\ chkFailCnt' = IF ~ok /\ chkSite.want THEN chkFailCnt + 1 ELSE chkFailCnt
    /\ chkPc' = IF chkRet' = "none" THEN "getinfo" ELSE "ret"
    /\ UNCHANGED <<chkSite, chkErr>>
    /\ UNCHANGED notChk

\* The caller's `if !CheckPastelDRunningRemote(...) { return <error> }`.
chkReturn ==
    /\ chkPc = "ret"
    /\ chkErr' = IF chkRet = "true" THEN ""
                 ELSE IF chkSite.want THEN "unable to start pasteld on remote"
                 ELSE "unable to stop pasteld on remote"
    /\ chkPc' = "done"
    /\ UNCHANGED <<chkSite, chkFailCnt, chkAnswered, chkRet>>
    /\ UNCHANGED notChk

NextChk ==
    \/ chkGetinfo
    \/ chkReturn

SpecChk == InitChk /\ [][NextChk]_vars

-----------------------------------------------------------------------------
(* Properties *)

Succeeded(step) == step \in executed \ failed

\* The number of "Initial" responses among the first n of this call.
RECURSIVE InitialCount(_)
InitialCount(n) ==
    IF n = 0 THEN 0
    ELSE InitialCount(n - 1) + (IF responses[n].AssetName = "Initial" THEN 1 ELSE 0)

AssetNames == [i \in 1..Len(responses) |-> responses[i].AssetName]

C3_SessionClosedOnExit ==
    pc = "done" => ~sshOpen

\* C4 (as stated): when the ParamsResolved step failed, no command but Init's has
\* been issued on the remote session by the time Run returns.
C4_NoRemoteCommandOnParamsFailure ==
    (pc = "done" /\ failed \cap ParamsSteps # {}) => sshCmds \subseteq {"curl"}

\* C4 (amended): when the ParamsResolved step failed in checkCollateral or
\* checkPassphrase, no command but Init's has been issued on the remote session
\* and no remote launch has been spawned by the time Run returns.
C4_NoRemoteCommandBeforeLaunch ==
    (pc = "done" /\ failed \cap {"checkCollateral", "checkPassphrase"} # {}) =>
        /\ sshCmds \subseteq {"curl"}
        /\ \A site \in LaunchSteps : gor[site] = "none"

C4_Witness ==
    /\ pc = "done"
    /\ "checkPassphrase" \in failed
    /\ Succeeded("checkCollateral")

\* C5: when the ParamsResolved step failed, the local daemon started by the first
\* runPastelNode is still running when Run returns and was never told to stop.
C5_LocalNodeLeftRunning ==
    (pc = "done" /\ failed \cap ParamsSteps # {}) =>
        /\ localRunning
        /\ executed \cap {"StopPastelDAndWait1", "StopPastelDAndWait2"} = {}

C5_Witness ==
    /\ pc = "done"
    /\ "checkPastelID" \in failed
    /\ localRunning

\* C6: when a step other than the PastelID ticket registration failed, Run has
\* returned a non-nil error and no step after the failed one was executed.
C6_FailureAborts ==
    \A s \in failed \ {"registerTicketPastelID"} :
        /\ pc = "done"
        /\ err # ""
        /\ \A t \in executed : Index(t) <= Index(s)

C6_Witness ==
    /\ pc = "done"
    /\ "runStartAliasMasternode" \in failed
    /\ Succeeded("mnSync")

C8_ReturnReasons ==
    (pc \in SyncSteps /\ at = "ret") =>
        \/ syncRes = "ok" /\ Len(responses) > 0 /\ mnstatus.IsSynced
        \/ syncRes = "status" /\ retryCount = 1
        \/ syncRes = "unmarshal"
        \/ syncRes = "reset" /\ Len(responses) > 0 /\ NeedsReset(mnstatus)

\* After a response was handled, the loop's step is the next status query when the
\* response is not synced, and the successful return when it is.
C8_PollsAgain ==
    (pc \in SyncSteps /\ at = "synced" /\ at' # at) =>
        IF mnstatus.IsSynced
        THEN at' = "ret" /\ syncRes' = "ok"
        ELSE at' = "status" /\ pc' = pc /\ syncRes' = "none"

\* C8 (as stated): as long as every status query succeeds and parses and no
\* response reports synced, checkMasterNodeSyncRemote does not return.
C8_ReturnsOnlyOnStatusFailure ==
    (pc \in SyncSteps /\ at = "ret" /\ syncRes # "ok") =>
        syncRes \in {"status", "unmarshal"}

\* C8 (amended): checkMasterNodeSyncRemote returns only on a synced response
\* (success), on the second failed status query, on a payload that does not parse
\* or on a failed reset command; never because of the number of responses.
C8_NoAttemptBound ==
    /\ [](C8_ReturnReasons)
    /\ [][C8_PollsAgain]_vars

C8_Witness ==
    /\ pc \in SyncSteps
    /\ at = "status"
    /\ Len(responses) = MaxPolls
    /\ retryCount = 0
    /\ \A i \in 1..Len(responses) : ~responses[i].IsSynced

\* C9: with want = true CheckPastelDRunningRemote returns true at the first
\* successful getinfo query and false after exactly 12 failed queries, each
\* followed by one sleep; it never issues a 13th query.
C9_TwelveAttempts ==
    (pc \in CheckSteps /\ Want(pc)) =>
        /\ queries <= MaxFailCnt
        /\ sleeps = failCnt
        /\ at = "getinfo" => checkRes = "none" /\ queries = failCnt /\ failCnt < MaxFailCnt
        /\ at = "ret" => checkRes \in {"true", "false"}
        /\ checkRes = "true" => queries = failCnt + 1
        /\ checkRes = "false" => failCnt = 12 /\ queries = 12 /\ sleeps = 12

C9_Witness ==
    /\ pc \in CheckSteps
    /\ checkRes = "false"
    /\ queries = 12

\* C10: once remoteHotNodeCtrl returned success and until the masternode launch,
\* the remote daemon is down.
C10_RemoteDownAfterWarmUp ==
    (Succeeded("hotStop") /\ "mnLaunch" \notin executed) => remote = "down"

\* The launch commands that were sent on the session and have not returned.
InFlight == { s \in LaunchSteps : gor[s] = "inflight" }

\* C11 (as stated): no getinfo query is issued on the session while a launch
\* command sent on it has not returned.
C11_OneCommandInFlight ==
    [][(queries' = queries + 1) => InFlight = {}]_vars

\* C11 (amended): the only commands that overlap others on the session are the
\* daemon launch commands; each is in flight only after its launch site was
\* executed, and the control thread's own commands (one action each) are issued
\* from its current step alone.
C11_OnlyLaunchesOverlap ==
    /\ \A s \in InFlight : s \in executed /\ (pc \in Steps => Index(s) < Index(pc))
    /\ \A s \in LaunchSteps : gor[s] # "none" => s \in executed
    /\ queries > 0 => pc \in CheckSteps
    /\ (Len(responses) > 0 \/ resets > 0) => pc \in SyncSteps

C11_Witness ==
    /\ pc = "mnCheckRunning"
    /\ checkRes = "true"
    /\ gor["mnLaunch"] = "inflight"
    /\ gor["hcuLaunch"] = "inflight"

\* The resolver was entered with every masternode parameter supplied.
AllGiven ==
    /\ rpc # "idle"
    /\ entry.txid # ""
    /\ entry.ind # ""
    /\ entry.passphrase # ""
    /\ entry.pkey # ""
    /\ entry.pastelid # ""

\* C12: when txid, index, passphrase, private key and PastelID are all supplied,
\* the resolver has returned success without a prompt and without an RPC.
C12_NoPromptNoRpcWhenPopulated ==
    (AllGiven /\ rpc \in {"return", "done"}) =>
        /\ rerr = ""
        /\ prompts = 0
        /\ rpcCalls = {}

\* C13: a txid, index, passphrase, private key or PastelID that was supplied when
\* the resolver was entered has the same value at every later moment.
C13_SuppliedValuesKept ==
    rpc # "idle" =>
        /\ entry.txid # "" => flagMasterNodeTxID = entry.txid
        /\ entry.ind # "" => flagMasterNodeInd = entry.ind
        /\ entry.passphrase # "" => flagMasterNodePassPhrase = entry.passphrase
        /\ entry.pkey # "" => flagMasterNodePrivateKey = entry.pkey
        /\ entry.pastelid # "" => flagMasterNodePastelID = entry.pastelid

\* C14: whenever checkCollateral's wait loop re-prompts the user, the round that
\* ends there has performed exactly 10 "masternode outputs" queries.
C14_TenQueriesPerRound ==
    rpc = "reprompt" => roundQueries = WaitAttempts

\* C15: once createOrUpdateMasternodeConf and createOrUpdateSuperNodeConfig have
\* both returned success, the node section of supernode.yml holds the resolved
\* PastelID and passphrase, the PastelID being the one of the masternode.conf entry.
C15_IdentityConsistent ==
    (confPc = "done" /\ confErr = "") =>
        /\ snConf.state = "yaml"
        /\ snConf.pastel_id = flagMasterNodePastelID
        /\ snConf.pass_phrase = flagMasterNodePassPhrase
        /\ masternodeConf.written
        /\ masternodeConf.pastelid = snConf.pastel_id

\* C16: runStartMasternode calls runPastelNode only when the external IP of the
\* masternode.conf entry equals the IP passed or discovered; when they differ it
\* returns an error, the mismatch error once the steps before the comparison
\* succeeded, and the daemon is never launched.
C16_MismatchNeverLaunches ==
    /\ (mnLaunched.called \/ mnPc = "runPastelNode") =>
            /\ confExtIP = flagNodeExtIP
            /\ mnLaunched.called => mnLaunched.extIP = confExtIP
    /\ mnErr = "mismatch" =>
            /\ confExtIP # flagNodeExtIP
            /\ mnPc = "done"
            /\ ~mnLaunched.called
    /\ (mnPc = "done" /\ confExtIP # flagNodeExtIP) =>
            /\ ~mnLaunched.called
            /\ mnErr \in { "ParsePastelConf", "getMasternodeConfData",
                           "GetExternalIPAddress", "mismatch" }

C16_Witness ==
    /\ mnPc = "done"
    /\ mnErr = "mismatch"
    /\ confExtIP = "10.0.0.5"
    /\ flagNodeExtIP = "10.0.0.6"

\* C17: StartService on a tool that is not registered returns started = false and
\* no error and invokes systemctl with no verb, whatever the tool.
C17_UnregisteredStartIsNoop ==
    (lastCall.op = "StartService" /\ ~registered) =>
        /\ ~lastCall.started
        /\ lastCall.err = ""
        /\ lastCall.verbs = {}

C17_Witness ==
    /\ lastCall.op = "StartService"
    /\ ~registered
    /\ app = "supernode"
    /\ ~running
    /\ prevCall.op = "RegisterService"

\* The status output of the last call has the "(running)" marker.
ReportedRunning ==
    \E k \in 1..Len(lastCall.statusOut) : lastCall.statusOut[k] = "(running)"

\* C18: StartService on a registered tool whose status output shows it running
\* returns started = true and no error without the start verb; so does a second
\* call after a first one that started the service.
C18_RunningStartIsNoop ==
    (lastCall.op = "StartService" /\ registered /\ ReportedRunning) =>
        /\ lastCall.started
        /\ lastCall.err = ""
        /\ lastCall.verbs = {"status"}
        /\ lastCall.wasRunning

C18_Witness ==
    /\ registered
    /\ prevCall.op = "StartService"
    /\ prevCall.started
    /\ "start" \in prevCall.verbs
    /\ lastCall.op = "StartService"
    /\ ReportedRunning
    /\ lastCall.started

\* C19: a RegisterService call that follows a RegisterService call which wrote the
\* unit definition neither writes it again nor invokes enable again.
C19_SecondRegisterDoesNothing ==
    (prevCall.op = "RegisterService" /\ prevCall.err = "" /\ prevCall.wrote
        /\ lastCall.op = "RegisterService") =>
            /\ ~lastCall.wrote
            /\ "enable" \notin lastCall.verbs

\* C20: StopService on a service that was not running returns no error and does
\* not invoke the stop verb, whatever the tool, registered or not.
C20_StopNotRunningIsNoop ==
    (lastCall.op = "StopService" /\ ~lastCall.wasRunning) =>
        /\ lastCall.err = ""
        /\ "stop" \notin lastCall.verbs

\* The argument list holds this argument.
Has(args, arg) == \E k \in 1..Len(args) : args[k] = arg

\* C21: every argument list runPastelNode hands to the daemon has "--masternode"
\* and "--masternodeprivkey=<key>" exactly when the key is not empty, "--reindex"
\* exactly when reindex is asked for, "--txindex=1" exactly when txIndexOne is,
\* and always the data directory, the external IP and "--daemon".
C21_ArgsFollowCall ==
    \A k \in 1..Len(spawned) :
        LET args == spawned[k] IN
        /\ Has(args, "--masternode") <=> nodeCall.mnPrivKey # ""
        /\ \A key \in PrivKeys :
            Has(args, "--masternodeprivkey=" \o key)
                <=> (nodeCall.mnPrivKey # "" /\ key = nodeCall.mnPrivKey)
        /\ Has(args, "--reindex") <=> nodeCall.reindex
        /\ Has(args, "--txindex=1") <=> nodeCall.txIndexOne
        /\ Has(args, "--datadir=" \o WorkingDir)
        /\ nodeCall.extIP # ""
        /\ Has(args, "--externalip=" \o nodeCall.extIP)
        /\ Has(args, "--daemon")

\* A daemon was launched without a key, with reindex and without txindex.
C21_Witness ==
    /\ Len(spawned) = 1
    /\ nodeCall.mnPrivKey = ""
    /\ nodeCall.reindex
    /\ ~nodeCall.txIndexOne
    /\ ~Has(spawned[1], "--masternode")
    /\ Has(spawned[1], "--reindex")

\* A pasteld process was started: by "go RunCMD", or by systemd's start verb.
DaemonStarted ==
    \/ spawned # << >>
    \/ (lastCall.op = "StartService" /\ "start" \in lastCall.verbs /\ lastCall.err = "")

\* C22: when pasteld, pastel.conf or the zksnark parameter files are not in place,
\* runPastelNode returns an error and has started no daemon; and a daemon that was
\* launched but did not answer in time makes it return an error.
C22_MissingFilesFail ==
    nodePc = "done" /\ (~nodeFiles.pasteld \/ ~nodeFiles.conf \/ ~nodeFiles.zksnark)
        => nodeErr # "" /\ ~DaemonStarted

\* The runServiceRemote calls of Run.
ServiceSteps == << "rqService", "ddService", "snService" >>

\* C23: rq-service, dd-service and supernode-service are started in this order,
\* each only after the one before returned nil; a failing one makes Run return
\* the error of that service, and no later service is started.
C23_ServicesInOrder ==
    \A i \in 1..Len(ServiceSteps) :
        /\ \A j \in 1..(i - 1) :
            (pc = ServiceSteps[i] \/ ServiceSteps[i] \in executed)
                => ServiceSteps[j] \in executed \ failed
        /\ ServiceSteps[i] \in failed
            => /\ pc = "done"
               /\ err = ServiceSteps[i]
               /\ \A j \in (i + 1)..Len(ServiceSteps) : ServiceSteps[j] \notin executed

\* dd-service failed after rq-service had started.
C23_Witness ==
    /\ pc = "done"
    /\ err = "ddService"
    /\ "rqService" \in executed \ failed
    /\ "snService" \notin executed

\* C24: supernode-service is started on the hot node only after the local
\* supernode config was copied to its remote path and the permissions of that
\* remote path were set; a failed copy or chmod leaves the service unstarted.
C24_ConfigInPlaceBeforeSupernode ==
    /\ snStarted
        => /\ RemoteSnConfigPath \in copied
           /\ RemoteSnConfigPath \in chmodded
           /\ remoteMode[RemoteSnConfigPath] = "755"
    /\ snErr \in {"Scp", "chmod"} => ~snStarted

\* The output is one runStartAliasMasternode must answer with an error.
BadAliasOutput(out) ==
    ~out.rpcOk \/ out.json # "object" \/ out.result = "failed"

\* C25: with the activation flag, a "masternode start-alias" that fails, gives no
\* JSON object or gives the result "failed" makes Run return the activation error
\* before any remote service is started; without the flag the RPC is not called.
C25_FailedActivationAborts ==
    /\ aliasOutput # NoAliasOutput /\ BadAliasOutput(aliasOutput)
        => /\ pc = "done"
           /\ err = "runStartAliasMasternode"
           /\ \A i \in 1..Len(ServiceSteps) : ServiceSteps[i] \notin executed
           /\ "pastel-utility" \notin sshCmds
    /\ ~flags.activate
        => /\ aliasOutput = NoAliasOutput
           /\ "runStartAliasMasternode" \notin executed

\* The activation RPC answered "failed" and Run returned.
C25_Witness ==
    /\ flags.activate
    /\ aliasOutput.rpcOk
    /\ aliasOutput.result = "failed"
    /\ pc = "done"
    /\ err = "runStartAliasMasternode"

\* C26: whatever registerTicketPastelID returns, Run goes on to stop the cold
\* node with its error unchanged, so a failed registration ends like a successful
\* one; and the registration is reached only with --create and --activate.
C26_RegistrationFailureIgnored ==
    [][/\ (pc = "registerTicketPastelID" /\ pc' # pc)
            => /\ pc' = "StopPastelDAndWait2"
               /\ err' = err
               /\ "registerTicketPastelID" \in executed'
       /\ pc' = "registerTicketPastelID" => flags.create /\ flags.activate]_vars

\* Run returned nil although the registration had failed.
C26_Witness ==
    /\ "registerTicketPastelID" \in failed
    /\ "StopPastelDAndWait2" \in executed
    /\ "snService" \in executed
    /\ pc = "done"
    /\ err = ""

InitInputsBad ==
    \/ ~chIn.RemotePastelUtilityDir
    \/ ~chIn.pastelConf
    \/ ~chIn.name
    \/ (~chIn.masternodeConf /\ ~chIn.confNew)
    \/ ~chIn.RemoteIP

\* C28: with the remote pastel-utility directory unset, an unreadable pastel.conf,
\* no name, no masternode.conf without the create-new flag or no SSH address, Init
\* returns an error and connectSSH is never called; connectSSH is called at most
\* once, and its failure is returned.
C28_InitFailsBeforeConnecting ==
    /\ InitInputsBad
        => /\ sshAttempts = 0
           /\ chCmds = {}
           /\ chPc \in {"handleArgs", "handleConfigs", "done"}
           /\ chPc = "done" => chErr # ""
    /\ sshAttempts <= 1
    /\ chErr = "ssh connection failure" => chPc = "done" /\ chCmds = {}

\* Init returned the error of a missing SSH address.
C28_Witness ==
    /\ chIn.RemotePastelUtilityDir
    /\ chIn.pastelConf
    /\ chIn.name
    /\ ~chIn.RemoteIP
    /\ chPc = "done"
    /\ chErr # ""
    /\ sshAttempts = 0

\* C29: once pastel.conf holds an RPC user, password and port, an install run
\* writes other ones only when it was given --regen-rpc.
C29_CredentialsKept ==
    [][(pastelConf # NoConf /\ pastelConf' # pastelConf) => instCfg.RegenRPC]_vars

\* C30: once the context is cancelled, neither CheckPastelDRunningRemote nor
\* checkMasterNodeSyncRemote issues another query.
C30_NoQueryAfterCancel ==
    [][cancelled
        => /\ queries' # queries + 1
           /\ Len(responses') # Len(responses) + 1
           /\ resets' # resets + 1]_vars

\* Texts that are JSON: scalars, the empty object, and objects of one or two
\* members with scalar or empty-object values, written out token by token.
WellFormed ==
    LET scalars == { <<"s">>, <<"n">> }
        values == scalars \cup { <<"{", "}">> }
        members == { <<"s", ":">> \o v : v \in values }
    IN values
       \cup { <<"{">> \o m \o <<"}">> : m \in members }
       \cup { <<"{">> \o m1 \o <<",">> \o m2 \o <<"}">> : m1 \in members, m2 \in members }
       \cup { <<"{", "s", ":">> \o <<"{">> \o m \o <<"}">> \o <<"}">> : m \in members }

\* C31: when the RPC succeeded and printed a non-empty text that is no JSON, each
\* of the four operations that parse the output returns an error.
C31_MalformedJsonIsAnError ==
    /\ parsePc \notin {"idle", "call"}
    /\ cliOk
    /\ Len(cliText) # 0
    /\ cliText \notin WellFormed
    => parseErr # ""

\* getMasternodeOutputs returned the parse error for an unclosed object.
C31_Witness ==
    /\ parsePc = "getMasternodeOutputs"
    /\ cliOk
    /\ cliText = <<"{", "s", ":">>
    /\ parseErr = "Unmarshal"

\* The key that follows "--masternodeprivkey=" in a command line, up to the next
\* option.
KeyOfCmdLine(cmdLine) ==
    LET opt == CHOOSE i \in 1..Len(cmdLine) : cmdLine[i] = "--masternodeprivkey="
    IN SubSeq(cmdLine, opt + 1, Len(cmdLine) - 1)

\* C32: the command line of the remote masternode launch carries the private key
\* of the masternode.conf entry of the node name being started, and when the run
\* generated a key on the hot node that is the key "masternode genkey" printed.
C32_LaunchKeyIsRegistryKey ==
    remoteCmdLine # << >>
    => /\ KeyOfCmdLine(remoteCmdLine) = mnRegistry[keyIn.name]
       /\ genkeyOut # << >> => KeyOfCmdLine(remoteCmdLine) \o <<"\n">> = genkeyOut

\* An --update run generated a key in place of the entry's old key and launched
\* the hot node with it.
C32_Witness ==
    /\ keyIn = [create |-> FALSE, update |-> TRUE, name |-> "mn1"]
    /\ keyPc = "done"
    /\ genkeyOut = <<"a", "b", "\n">>
    /\ mnRegistry = [n \in NodeNames |-> IF n = "mn1" THEN <<"a", "b">> ELSE <<"b">>]
    /\ remoteCmdLine = MasternodeCmdLine(<<"a", "b">>)

\* C33: an update of an existing supernode.yml changes pastel_id and pass_phrase
\* alone; every other key of the node section and every other section is as it
\* was.
C33_UpdateKeepsOtherKeys ==
    [][(confPc = "createOrUpdateSuperNodeConfig" /\ snConf.state = "yaml"
            /\ snConf'.state = "yaml")
        => /\ snConf'.storage_challenge_expired_duration
                = snConf.storage_challenge_expired_duration
           /\ snConf'.number_of_challenge_replicas = snConf.number_of_challenge_replicas
           /\ snConf'.node_port = snConf.node_port
           /\ snConf'.p2p = snConf.p2p]_vars

\* C34: runRemoteStart returns an error when executing the start command on the
\* remote host(s) failed.
C34_FailedRemoteStartIsAnError ==
    (rsPc = "done" /\ rsFailed) => rsErr # ""

\* C35: the StartService call that follows a RegisterService call which wrote the
\* unit definition and returned nil finds the tool registered: it queries the
\* service's status instead of skipping the start.
C35_RegisterMakesRegistered ==
    (prevCall.op = "RegisterService" /\ prevCall.err = "" /\ prevCall.wrote
        /\ lastCall.op = "StartService") =>
            "status" \in lastCall.verbs

\* C38: RegisterService of a tool that is not registered and whose executable is
\* not there returns an error and writes no unit definition.
C38_MissingExecutableIsAnError ==
    (lastCall.op = "RegisterService" /\ NeedsExecutable(app) /\ ~exePresent
        /\ ~registered) =>
        /\ lastCall.err # ""
        /\ ~lastCall.wrote
        /\ unit = NoUnit

\* The argument lists the running daemon can have been launched with once
\* runPastelNode returned success: the unit definition's when the service manager
\* reported the service started, the last list handed to "go RunCMD" otherwise.
RunningDaemonArgs ==
    IF lastCall.op = "StartService" /\ lastCall.started
    THEN { PasteldExecCmd(ip) : ip \in IPs }
    ELSE { spawned[k] : k \in {Len(spawned)} \ {0} }

\* C36: after a successful runPastelNode with a masternode private key, the
\* running daemon was launched with "--masternode --masternodeprivkey=<key>".
C36_RunningDaemonHasKey ==
    (nodePc = "done" /\ nodeErr = "" /\ nodeCall.mnPrivKey # "") =>
        /\ RunningDaemonArgs # {}
        /\ \A args \in RunningDaemonArgs :
            /\ Has(args, "--masternode")
            /\ Has(args, "--masternodeprivkey=" \o nodeCall.mnPrivKey)

C39_SuccessMeansWritten ==
    [][(confPc = "createOrUpdateSuperNodeConfig" /\ confPc' = "done" /\ confErr' = "")
        => snConf' = (IF snConf.state = "absent"
                      THEN NewSuperNodeConfig
                      ELSE UpdatedSuperNodeConfig)]_vars

\* C40: a call with want = false returns, for the outcome its query had, a value
\* other than the one it returns for the opposite outcome.
C40_StoppedIsDistinguished ==
    (chkPc \in {"ret", "done"} /\ ~chkSite.want) =>
        chkRet # PassResult(chkSite, chkFailCnt, ~chkAnswered)

====
